---- MODULE Spec2Model ----
(***************************************************************************)
(* Production phase execution engine of the shop-floor tracker:            *)
(*   - the operator client (MachineOperatorView, latest revision):         *)
(*     scan, start/finish of find, setup and production stages, the        *)
(*     "finish previous" dialog, resetView;                                *)
(*   - the dead-time client (DeadTimeView);                                *)
(*   - the record store behind api/client.ts (phase logs, dead-time        *)
(*     records, live-phase table).                                         *)
(* Every handler is one action: its awaits are round trips whose outcome   *)
(* (ok / network failure) is an input of the action.  A handler reads the  *)
(* React state of the render it was created in (its closure, `base`) and   *)
(* queues state updates, which are applied in order (`cs`); the timer ref  *)
(* is read and written immediately.                                        *)
(***************************************************************************)
EXTENDS Integers, Sequences, FiniteSets, TLC

VARIABLES
    logs,       \* store: phase_logs, in insertion order (id = index)
    deadLogs,   \* store: dead-time records, in insertion order (id = index)
    live,       \* store: live_phase_log, one optional row per username
    client,     \* MachineOperatorView React state, per operator
    deadView,   \* DeadTimeView React state, per operator
    ev,         \* what the last handler did (requests sent, answers, inputs)
    now,        \* the wall clock, in seconds
    machineView, \* components/MachineOperatorView.tsx React state and timer refs
    livePhases  \* LivePhasesView: React state, interval and polls in flight

vars == <<logs, deadLogs, live, client, deadView, ev, now, machineView, livePhases>>

(***************************************************************************)
(* Bounds and the data the store is seeded with                            *)
(***************************************************************************)
MaxLogs == 2
MaxDead == 1
SheetQty == 2
MaxNow == 3
MaxPolls == 2

Operators == {"op1", "op2"}
SheetIds == {"S1", "S2"}
StageTypes == {"find", "setup", "production"}

\* Phase snapshots are stored in sequence-position order (OrderKeeperView
\* derives position from the index, PdfOrderImportView sorts by position).
PhasesS1 ==
    << [phaseId |-> "30", position |-> 10, setupTime |-> 0, productionTimePerPiece |-> 1],
       [phaseId |-> "7",  position |-> 20, setupTime |-> 5, productionTimePerPiece |-> 2] >>

PhasesS2 ==
    << [phaseId |-> "7",  position |-> 10, setupTime |-> 5, productionTimePerPiece |-> 2] >>

SheetDefs ==
    [s \in SheetIds |->
        IF s = "S1"
        THEN [id |-> "S1", quantity |-> SheetQty, phases |-> PhasesS1]
        ELSE [id |-> "S2", quantity |-> 1, phases |-> PhasesS2]]

PhaseIds == {"30", "7"}

\* `sheet` state when no sheet is loaded (null)
NoSheet == [id |-> "none", quantity |-> 0, phases |-> <<>>, phaseLogs |-> <<>>]

NoLive ==
    [sheetId |-> "none", phaseId |-> "none", status |-> "none", plannedTime |-> 0,
     startTime |-> 0]

(***************************************************************************)
(* Strings typed into prompt(): sequences of one-character strings         *)
(***************************************************************************)
Digits == {"0", "1", "2", "3", "4", "5", "6", "7", "8", "9"}

DigitVal(c) ==
    CASE c = "0" -> 0 [] c = "1" -> 1 [] c = "2" -> 2 [] c = "3" -> 3
      [] c = "4" -> 4 [] c = "5" -> 5 [] c = "6" -> 6 [] c = "7" -> 7
      [] c = "8" -> 8 [] c = "9" -> 9

RECURSIVE TrimLeft(_)
TrimLeft(s) == IF s # <<>> /\ Head(s) = " " THEN TrimLeft(Tail(s)) ELSE s

RECURSIVE TrimRight(_)
TrimRight(s) ==
    IF s # <<>> /\ s[Len(s)] = " " THEN TrimRight(SubSeq(s, 1, Len(s) - 1)) ELSE s

\* String.prototype.trim
trim(s) == TrimRight(TrimLeft(s))

RECURSIVE DigitPrefix(_)
DigitPrefix(s) ==
    IF s # <<>> /\ Head(s) \in Digits THEN <<Head(s)>> \o DigitPrefix(Tail(s)) ELSE <<>>

RECURSIVE DecimalValue(_)
DecimalValue(ds) ==
    IF ds = <<>> THEN 0
    ELSE 10 * DecimalValue(SubSeq(ds, 1, Len(ds) - 1)) + DigitVal(ds[Len(ds)])

\* parseInt(s, 10): leading white space is skipped, an optional sign is read,
\* then the longest prefix of digits; anything after it is ignored.  No digit
\* gives NaN.
parseInt(str) ==
    LET s    == TrimLeft(str)
        neg  == s # <<>> /\ Head(s) = "-"
        body == IF s # <<>> /\ Head(s) \in {"-", "+"} THEN Tail(s) ELSE s
        ds   == DigitPrefix(body)
    IN  IF ds = <<>>
        THEN [nan |-> TRUE, val |-> 0]
        ELSE [nan |-> FALSE, val |-> IF neg THEN 0 - DecimalValue(ds) ELSE DecimalValue(ds)]

\* What the operator may type at the partial-quantity prompt
PromptInputs ==
    { <<"1">>, <<"2">>, <<" ", "1">>, <<"9">>, <<"0">>, <<"-", "1">>, <<>>,
      <<"1", ".", "5">> }

\* prompt() returns null when the dialog is cancelled
PromptCancelled == <<"null">>

(***************************************************************************)
(* The record store reached through api/client.ts                          *)
(***************************************************************************)
HasOpenLog(L, u) ==
    \E i \in DOMAIN L : L[i].operatorUsername = u /\ L[i].endTime = "null"

HasOpenDead(D, u) ==
    \E i \in DOMAIN D : D[i].username = u /\ D[i].endTime = "null"

\* A duration of a start request: a request that carries none stores 0
TimeField(data, name) == IF name \in DOMAIN data THEN data[name] ELSE 0

\* Variant of ServerStartPhase whose open-record rule looks at the sheet of the
\* new record only
ServerStartPhase_PerSheet(L, D, data) ==
    IF \/ \E i \in DOMAIN L : /\ L[i].operatorUsername = data.operatorUsername
                              /\ L[i].endTime = "null"
                              /\ L[i].sheetId = data.sheetId
       \/ HasOpenDead(D, data.operatorUsername)
    THEN [res |-> "conflict", logs |-> L, id |-> 0]
    ELSE [res |-> "ok",
          logs |-> Append(L, [id |-> Len(L) + 1,
                              operatorUsername |-> data.operatorUsername,
                              sheetId |-> data.sheetId,
                              phaseId |-> data.phaseId,
                              stage |-> data.stage,
                              startTime |-> data.startTime,
                              endTime |-> "null",
                              quantityDone |-> 0,
                              timeSeconds |-> 0,
                              findMaterialTime |-> TimeField(data, "findMaterialTime"),
                              setupTime |-> TimeField(data, "setupTime"),
                              totalQuantity |-> data.totalQuantity]),
          id |-> Len(L) + 1]

\* Variant of ServerStartPhase without the open-record rule
ServerStartPhase_NoCheck(L, D, data) ==
    [res |-> "ok",
     logs |-> Append(L, [id |-> Len(L) + 1,
                         operatorUsername |-> data.operatorUsername,
                         sheetId |-> data.sheetId,
                         phaseId |-> data.phaseId,
                         stage |-> data.stage,
                         startTime |-> data.startTime,
                         endTime |-> "null",
                         quantityDone |-> 0,
                         timeSeconds |-> 0,
                         findMaterialTime |-> TimeField(data, "findMaterialTime"),
                         setupTime |-> TimeField(data, "setupTime"),
                         totalQuantity |-> data.totalQuantity]),
     id |-> Len(L) + 1]

\* POST /phase_logs/start: the insert is refused while the operator has an
\* open record (work log or dead time); otherwise the record is created open.
ServerStartPhase(L, D, data) ==
    IF HasOpenLog(L, data.operatorUsername) \/ HasOpenDead(D, data.operatorUsername)
    THEN [res |-> "conflict", logs |-> L, id |-> 0]
    ELSE [res |-> "ok",
          logs |-> Append(L, [id |-> Len(L) + 1,
                              operatorUsername |-> data.operatorUsername,
                              sheetId |-> data.sheetId,
                              phaseId |-> data.phaseId,
                              stage |-> data.stage,
                              startTime |-> data.startTime,
                              endTime |-> "null",
                              quantityDone |-> 0,
                              timeSeconds |-> 0,
                              findMaterialTime |-> TimeField(data, "findMaterialTime"),
                              setupTime |-> TimeField(data, "setupTime"),
                              totalQuantity |-> data.totalQuantity]),
          id |-> Len(L) + 1]

\* POST /phase_logs/finish/:id : update by id
\* Variant of ServerFinishPhase that adds the quantity to the one stored,
\* whether the record is open or closed
ServerFinishPhase_Accumulate(L, id, quantityDone, timeSeconds) ==
    [L EXCEPT ![id].endTime = "set", ![id].quantityDone = @ + quantityDone,
              ![id].timeSeconds = timeSeconds]

\* Variant of ServerFinishPhase that writes a closed record again
ServerFinishPhase_Overwrite(L, id, quantityDone, timeSeconds) ==
    [L EXCEPT ![id].endTime = "set", ![id].quantityDone = quantityDone,
              ![id].timeSeconds = timeSeconds]

\* A record is mutated only by the operation that closes it: a finish request
\* for a record that is already closed is answered and changes nothing
ServerFinishPhase(L, id, quantityDone, timeSeconds) ==
    IF L[id].endTime # "null" THEN L
    ELSE [L EXCEPT ![id].endTime = "set", ![id].quantityDone = quantityDone,
                   ![id].timeSeconds = timeSeconds]

\* POST /deadtime/start: same open-record rule as ServerStartPhase
ServerStartDeadTime(L, D, data) ==
    IF HasOpenLog(L, data.username) \/ HasOpenDead(D, data.username)
    THEN [res |-> "conflict", dead |-> D, id |-> 0]
    ELSE [res |-> "ok",
          dead |-> Append(D, [id |-> Len(D) + 1, username |-> data.username,
                              code |-> data.code, endTime |-> "null"]),
          id |-> Len(D) + 1]

\* POST /deadtime/finish/:id
ServerFinishDeadTime(D, id) == [D EXCEPT ![id].endTime = "set"]

\* GET production sheet by QR: the frozen phase snapshot plus all logs of the sheet
getProductionSheetByQr(L, s) ==
    [id |-> s,
     quantity |-> SheetDefs[s].quantity,
     phases |-> SheetDefs[s].phases,
     phaseLogs |-> SelectSeq(L, LAMBDA l : l.sheetId = s)]

\* Variant of RawLiveStatus that lists every live_phase_log row as active
RawLiveStatus_NoPrecedence(liveTbl, D, t) ==
    LET inDead   == {u \in Operators : HasOpenDead(D, u)}
        inActive == {u \in Operators : liveTbl[u] # NoLive}
    IN  [active |-> { [username |-> u, sheet_id |-> liveTbl[u].sheetId,
                       phase_id |-> liveTbl[u].phaseId,
                       planned_time |-> liveTbl[u].plannedTime,
                       status |-> liveTbl[u].status,
                       running_seconds |-> t - liveTbl[u].startTime,
                       is_overrun |-> (t - liveTbl[u].startTime) > liveTbl[u].plannedTime] :
                      u \in inActive },
         dead |-> { [id |-> D[i].id, username |-> D[i].username, code |-> D[i].code] :
                    i \in {j \in DOMAIN D : D[j].endTime = "null"} },
         idle |-> { [username |-> u] : u \in Operators \ (inDead \cup inActive) }]

\* GET /api/live/status, raw shape at time t.  An operator is in exactly one
\* bucket, an open dead-time record before a live_phase_log row before idle.
RawLiveStatus(liveTbl, D, t) ==
    LET inDead   == {u \in Operators : HasOpenDead(D, u)}
        inActive == {u \in Operators : liveTbl[u] # NoLive} \ inDead
    IN  [active |-> { [username |-> u, sheet_id |-> liveTbl[u].sheetId,
                       phase_id |-> liveTbl[u].phaseId,
                       planned_time |-> liveTbl[u].plannedTime,
                       status |-> liveTbl[u].status,
                       running_seconds |-> t - liveTbl[u].startTime,
                       is_overrun |-> (t - liveTbl[u].startTime) > liveTbl[u].plannedTime] :
                      u \in inActive },
         dead |-> { [id |-> D[i].id, username |-> D[i].username, code |-> D[i].code] :
                    i \in {j \in DOMAIN D : D[j].endTime = "null"} },
         idle |-> { [username |-> u] : u \in Operators \ (inDead \cup inActive) }]

\* api.getLiveStatus: the raw rows renamed to camelCase; the snake_case
\* names are not kept
getLiveStatus(liveTbl, D, t) ==
    LET raw == RawLiveStatus(liveTbl, D, t)
    IN  [active |-> { [username |-> a.username, sheetId |-> a.sheet_id,
                       phaseId |-> a.phase_id, plannedTime |-> a.planned_time,
                       status |-> a.status, runningSeconds |-> a.running_seconds,
                       isOverrun |-> a.is_overrun] : a \in raw.active },
         dead |-> { [id |-> d.id, username |-> d.username, code |-> d.code] :
                    d \in raw.dead },
         idle |-> { [username |-> u.username] : u \in raw.idle }]

\* JavaScript property read: a missing property is undefined
Prop(obj, name) == IF name \in DOMAIN obj THEN obj[name] ELSE "undefined"

(***************************************************************************)
(* Remaining quantity                                                      *)
(***************************************************************************)
RECURSIVE SumQuantityDone(_, _)
SumQuantityDone(ls, pid) ==
    IF ls = <<>> THEN 0
    ELSE (IF Head(ls).phaseId = pid THEN Head(ls).quantityDone ELSE 0)
         + SumQuantityDone(Tail(ls), pid)

\* doneByPhase.get(pid) || 0 : every log of the snapshot is added
doneByPhase(sheet, pid) == SumQuantityDone(sheet.phaseLogs, pid)

\* phasesArr.findIndex(...) : 0 when absent (indices are 1-based here)
PhaseIndex(sheet, pid) ==
    LET hits == {i \in DOMAIN sheet.phases : sheet.phases[i].phaseId = pid}
    IN  IF hits = {} THEN 0 ELSE CHOOSE i \in hits : \A j \in hits : i <= j

Max(a, b) == IF a >= b THEN a ELSE b

\* Variant of computeRemainingForPhase without Math.max(0, ...)
computeRemainingForPhase_NoClamp(sheet, phaseId) ==
    IF sheet = NoSheet THEN 0
    ELSE LET idx == PhaseIndex(sheet, phaseId)
         IN  IF idx = 0 THEN 0
             ELSE LET upstreamDone ==
                          IF idx = 1 THEN sheet.quantity
                          ELSE doneByPhase(sheet, sheet.phases[idx - 1].phaseId)
                      alreadyDoneHere == doneByPhase(sheet, phaseId)
                  IN  upstreamDone - alreadyDoneHere

\* Variant of computeRemainingForPhase that does not subtract alreadyDoneHere
computeRemainingForPhase_IgnoreDone(sheet, phaseId) ==
    IF sheet = NoSheet THEN 0
    ELSE LET idx == PhaseIndex(sheet, phaseId)
         IN  IF idx = 0 THEN 0
             ELSE LET upstreamDone ==
                          IF idx = 1 THEN sheet.quantity
                          ELSE doneByPhase(sheet, sheet.phases[idx - 1].phaseId)
                  IN  Max(0, upstreamDone)

computeRemainingForPhase(sheet, phaseId) ==
    IF sheet = NoSheet THEN 0
    ELSE LET idx == PhaseIndex(sheet, phaseId)
         IN  IF idx = 0 THEN 0
             ELSE LET upstreamDone ==
                          IF idx = 1 THEN sheet.quantity
                          ELSE doneByPhase(sheet, sheet.phases[idx - 1].phaseId)
                      alreadyDoneHere == doneByPhase(sheet, phaseId)
                  IN  Max(0, upstreamDone - alreadyDoneHere)

\* Details view: the start buttons of the phase at `index` are rendered
\* (!currentStage && !isPhaseLocked && isUnlocked)
StartButtonsShown(cs, index) ==
    LET sheet      == cs.sheet
        phaseId    == sheet.phases[index].phaseId
        prevDone   == IF index = 1 THEN sheet.quantity
                      ELSE doneByPhase(sheet, sheet.phases[index - 1].phaseId)
        isUnlocked == IF index = 1 THEN TRUE
                      ELSE doneByPhase(sheet, sheet.phases[index - 1].phaseId) > 0
        canStartQty == Max(0, prevDone - doneByPhase(sheet, phaseId))
    IN  /\ cs.currentStage = "none"
        /\ ~(canStartQty <= 0)
        /\ isUnlocked

(***************************************************************************)
(* MachineOperatorView: state and handlers                                 *)
(***************************************************************************)
\* pendingStageTimes = {}: a phase without an entry reads as { find: 0, setup: 0 }
NoPending == [p \in PhaseIds |-> [find |-> 0, setup |-> 0]]

\* useState initial values; activeLog is kept as the id of the PhaseLog it
\* holds (0 = null): the handlers read only its id, phaseId and stage, which
\* the store never changes.
InitClient ==
    [viewState |-> "idle", sheet |-> NoSheet, activeLog |-> 0,
     currentStage |-> "none", currentStagePhaseId |-> "none", stageTimer |-> FALSE,
     stageSeconds |-> 0, pendingStageTimes |-> NoPending]

\* Outcome of each round trip of a handler: TRUE = answered, FALSE = failed
NetOk ==
    [getSheet |-> TRUE, getMaterials |-> TRUE, getLiveStatus |-> TRUE,
     startPhase |-> TRUE, startLivePhase |-> TRUE,
     finishPhase |-> TRUE, stopLivePhase |-> TRUE,
     startDeadTime |-> TRUE, finishDeadTime |-> TRUE,
     \* a failed finishPhase whose request reached the store (response lost)
     finishLost |-> FALSE]

\* Nothing observed yet in the running handler
NoTrace ==
    [dialog |-> "none", phaseId |-> "none",
     startSent |-> FALSE, openAtStart |-> FALSE, heldAtStart |-> FALSE,
     startRes |-> "none",
     finishSent |-> FALSE, finishRes |-> "none",
     isPartial |-> FALSE, input |-> <<>>, reloaded |-> FALSE,
     closedAtFinish |-> FALSE]

\* A running handler: queued React state, the store, and what was observed
Begin(op) ==
    [cs |-> client[op], logs |-> logs, live |-> live, dead |-> deadLogs,
     now |-> now, tr |-> NoTrace, threw |-> FALSE]

clearStageTimer(x) == [x EXCEPT !.cs.stageTimer = FALSE]

\* Variant of finishSimpleStage that reports one piece done
finishSimpleStage_CountsPiece(op, base, x, net) ==
    IF base.currentStage = "none" \/ base.currentStagePhaseId = "none" THEN x
    ELSE
        LET x1 == clearStageTimer(x)
            logId == base.activeLog
            finally(y) == [y EXCEPT !.cs.stageSeconds = 0,
                                    !.cs.currentStage = "none",
                                    !.cs.currentStagePhaseId = "none"]
        IN  IF logId = 0 THEN finally(x1)
            ELSE IF ~net.finishPhase
            THEN finally([x1 EXCEPT !.tr.finishSent = TRUE, !.tr.finishRes = "neterr"])
            ELSE
                LET x2 == [x1 EXCEPT !.logs = ServerFinishPhase(@, logId, 1, base.stageSeconds),
                                     !.tr.finishSent = TRUE, !.tr.finishRes = "ok"]
                IN  IF ~net.stopLivePhase THEN finally(x2)
                    ELSE finally([x2 EXCEPT !.live[op] = NoLive, !.cs.activeLog = 0])

finishSimpleStage(op, base, x, net) ==
    IF base.currentStage = "none" \/ base.currentStagePhaseId = "none" THEN x
    ELSE
        LET x1 == clearStageTimer(x)
            logId == base.activeLog
            finally(y) == [y EXCEPT !.cs.stageSeconds = 0,
                                    !.cs.currentStage = "none",
                                    !.cs.currentStagePhaseId = "none"]
        IN  IF logId = 0 THEN finally(x1)
            ELSE IF ~net.finishPhase
            THEN finally([x1 EXCEPT !.tr.finishSent = TRUE, !.tr.finishRes = "neterr"])
            ELSE
                LET x2 == [x1 EXCEPT !.logs = ServerFinishPhase(@, logId, 0, base.stageSeconds),
                                     !.tr.finishSent = TRUE, !.tr.finishRes = "ok"]
                IN  IF ~net.stopLivePhase THEN finally(x2)
                    ELSE finally([x2 EXCEPT !.live[op] = NoLive, !.cs.activeLog = 0])

\* Variant of finishProductionStage whose full finish reports sheet.quantity
finishProductionStage_FullQty(op, base, x, isPartial, input, net) ==
    IF base.activeLog = 0 \/ base.sheet = NoSheet THEN x
    ELSE
        LET phaseId   == x.logs[base.activeLog].phaseId
            remaining == computeRemainingForPhase(base.sheet, phaseId)
            x0 == [x EXCEPT !.tr.isPartial = isPartial,
                            !.tr.input = IF isPartial THEN input ELSE <<>>]
        IN  IF remaining <= 0 THEN x0
            ELSE IF isPartial /\ input = PromptCancelled THEN x0
            ELSE
                LET qty == parseInt(trim(input))
                    invalid == isPartial /\ (qty.nan \/ qty.val <= 0 \/ qty.val > remaining)
                    quantityDone == IF isPartial THEN qty.val ELSE base.sheet.quantity
                    x1 == clearStageTimer(x0)
                IN  IF invalid THEN x0
                    ELSE IF ~net.finishPhase
                    THEN [x1 EXCEPT !.tr.finishSent = TRUE, !.tr.finishRes = "neterr",
                                    !.threw = TRUE]
                    ELSE
                        LET x2 == [x1 EXCEPT
                                      !.logs = ServerFinishPhase(@, base.activeLog, quantityDone,
                                                                base.stageSeconds),
                                      !.live[op] = IF net.stopLivePhase THEN NoLive ELSE @,
                                      !.tr.finishSent = TRUE, !.tr.finishRes = "ok",
                                      !.cs.activeLog = 0,
                                      !.cs.stageSeconds = 0,
                                      !.cs.currentStage = "none",
                                      !.cs.currentStagePhaseId = "none"]
                        IN  IF ~net.getSheet THEN [x2 EXCEPT !.threw = TRUE]
                            ELSE [x2 EXCEPT
                                     !.cs.sheet = getProductionSheetByQr(x2.logs, base.sheet.id),
                                     !.tr.reloaded = TRUE]

finishProductionStage(op, base, x, isPartial, input, net) ==
    IF base.activeLog = 0 \/ base.sheet = NoSheet THEN x
    ELSE
        LET phaseId   == x.logs[base.activeLog].phaseId
            remaining == computeRemainingForPhase(base.sheet, phaseId)
            x0 == [x EXCEPT !.tr.isPartial = isPartial,
                            !.tr.input = IF isPartial THEN input ELSE <<>>]
        IN  IF remaining <= 0 THEN x0
            ELSE IF isPartial /\ input = PromptCancelled THEN x0
            ELSE
                LET qty == parseInt(trim(input))
                    invalid == isPartial /\ (qty.nan \/ qty.val <= 0 \/ qty.val > remaining)
                    quantityDone == IF isPartial THEN qty.val ELSE remaining
                    x1 == clearStageTimer(x0)
                IN  IF invalid THEN x0
                    ELSE IF ~net.finishPhase
                    THEN [x1 EXCEPT !.logs = IF net.finishLost
                                             THEN ServerFinishPhase(@, base.activeLog,
                                                      quantityDone, base.stageSeconds)
                                             ELSE @,
                                    !.tr.finishSent = TRUE,
                                    !.tr.finishRes = IF net.finishLost THEN "lost"
                                                     ELSE "neterr",
                                    !.tr.closedAtFinish =
                                        x.logs[base.activeLog].endTime # "null",
                                    !.threw = TRUE]
                    ELSE
                        LET x2 == [x1 EXCEPT
                                      !.logs = ServerFinishPhase(@, base.activeLog, quantityDone,
                                                                base.stageSeconds),
                                      !.live[op] = IF net.stopLivePhase THEN NoLive ELSE @,
                                      !.tr.finishSent = TRUE, !.tr.finishRes = "ok",
                                      !.tr.closedAtFinish =
                                          x.logs[base.activeLog].endTime # "null",
                                      !.cs.activeLog = 0,
                                      !.cs.stageSeconds = 0,
                                      !.cs.currentStage = "none",
                                      !.cs.currentStagePhaseId = "none"]
                        IN  IF ~net.getSheet THEN [x2 EXCEPT !.threw = TRUE]
                            ELSE [x2 EXCEPT
                                     !.cs.sheet = getProductionSheetByQr(x2.logs, base.sheet.id),
                                     !.tr.reloaded = TRUE]

\* choice: the button pressed in the "still running" dialog
ensurePreviousPhaseClosed(op, base, x, choice, net) ==
    IF base.activeLog = 0 THEN [ok |-> TRUE, x |-> x]
    ELSE
        LET runningStage == x.logs[base.activeLog].stage
            x0 == [x EXCEPT !.tr.dialog = choice]
        IN  IF choice = "cancel" THEN [ok |-> FALSE, x |-> x0]
            ELSE IF runningStage = "production"
            THEN [ok |-> TRUE, x |-> finishProductionStage(op, base, x0, FALSE, <<>>, net)]
            ELSE [ok |-> TRUE, x |-> finishSimpleStage(op, base, x0, net)]

\* The record the handler's activeLog holds is still open in the store L
HeldOpen(base, L) ==
    IF base.activeLog = 0 THEN FALSE ELSE L[base.activeLog].endTime = "null"

PhaseDef(sheet, phaseId) == sheet.phases[PhaseIndex(sheet, phaseId)]

\* Variant of startSimpleStage without the remaining-quantity guard
startSimpleStage_NoRemainingGuard(op, base, x, phaseId, stage, choice, net) ==
    IF stage = "production" \/ base.sheet = NoSheet THEN x
    ELSE
        LET e == ensurePreviousPhaseClosed(op, base, x, choice, net)
            remainingForPhase == computeRemainingForPhase(base.sheet, phaseId)
            catch(y) == [clearStageTimer(y) EXCEPT !.cs.currentStage = "none",
                                                   !.cs.currentStagePhaseId = "none",
                                                   !.cs.stageSeconds = 0]
            x1 == [e.x EXCEPT !.tr.startSent = TRUE, !.tr.phaseId = phaseId,
                              !.tr.openAtStart = HasOpenLog(e.x.logs, op)
                                                 \/ HasOpenDead(e.x.dead, op),
                              !.tr.heldAtStart = HeldOpen(base, e.x.logs)]
            r == ServerStartPhase(x1.logs, x1.dead,
                     [operatorUsername |-> op, sheetId |-> base.sheet.id,
                      phaseId |-> phaseId, stage |-> stage, startTime |-> x.now,
                      totalQuantity |-> 0])
            def == PhaseDef(base.sheet, phaseId)
            plannedTime == def.setupTime + def.productionTimePerPiece * remainingForPhase
        IN  IF e.x.threw \/ ~e.ok THEN e.x
            ELSE IF ~net.startPhase THEN catch([x1 EXCEPT !.tr.startRes = "neterr"])
            ELSE IF r.res # "ok" THEN catch([x1 EXCEPT !.tr.startRes = r.res])
            ELSE
                LET x2 == [x1 EXCEPT !.logs = r.logs, !.tr.startRes = "ok",
                                     !.cs.activeLog = r.id]
                IN  IF ~net.startLivePhase THEN catch(x2)
                    ELSE [x2 EXCEPT
                             !.live[op] = [sheetId |-> base.sheet.id, phaseId |-> phaseId,
                                           status |-> IF stage = "find" THEN "search" ELSE "setup",
                                           plannedTime |-> plannedTime,
                                           startTime |-> x.now],
                             !.cs.currentStage = stage,
                             !.cs.currentStagePhaseId = phaseId,
                             !.cs.stageSeconds = 0,
                             !.cs.stageTimer = TRUE]

startSimpleStage(op, base, x, phaseId, stage, choice, net) ==
    IF stage = "production" \/ base.sheet = NoSheet THEN x
    ELSE
        LET e == ensurePreviousPhaseClosed(op, base, x, choice, net)
            remainingForPhase == computeRemainingForPhase(base.sheet, phaseId)
            catch(y) == [clearStageTimer(y) EXCEPT !.cs.currentStage = "none",
                                                   !.cs.currentStagePhaseId = "none",
                                                   !.cs.stageSeconds = 0]
            x1 == [e.x EXCEPT !.tr.startSent = TRUE, !.tr.phaseId = phaseId,
                              !.tr.openAtStart = HasOpenLog(e.x.logs, op)
                                                 \/ HasOpenDead(e.x.dead, op),
                              !.tr.heldAtStart = HeldOpen(base, e.x.logs)]
            r == ServerStartPhase(x1.logs, x1.dead,
                     [operatorUsername |-> op, sheetId |-> base.sheet.id,
                      phaseId |-> phaseId, stage |-> stage, startTime |-> x.now,
                      totalQuantity |-> 0])
            def == PhaseDef(base.sheet, phaseId)
            plannedTime == def.setupTime + def.productionTimePerPiece * remainingForPhase
        IN  IF e.x.threw \/ ~e.ok THEN e.x
            ELSE IF remainingForPhase <= 0 THEN e.x
            ELSE IF ~net.startPhase THEN catch([x1 EXCEPT !.tr.startRes = "neterr"])
            ELSE IF r.res # "ok" THEN catch([x1 EXCEPT !.tr.startRes = r.res])
            ELSE
                LET x2 == [x1 EXCEPT !.logs = r.logs, !.tr.startRes = "ok",
                                     !.cs.activeLog = r.id]
                IN  IF ~net.startLivePhase THEN catch(x2)
                    ELSE [x2 EXCEPT
                             !.live[op] = [sheetId |-> base.sheet.id, phaseId |-> phaseId,
                                           status |-> IF stage = "find" THEN "search" ELSE "setup",
                                           plannedTime |-> plannedTime,
                                           startTime |-> x.now],
                             !.cs.currentStage = stage,
                             !.cs.currentStagePhaseId = phaseId,
                             !.cs.stageSeconds = 0,
                             !.cs.stageTimer = TRUE]

\* Variant of startProductionStage that shows the stage as running and starts
\* the timer before the startPhase round trip
startProductionStage_Optimistic(op, base, x, phaseId, choice, net) ==
    LET e == ensurePreviousPhaseClosed(op, base, x, choice, net)
        remainingForPhase == computeRemainingForPhase(base.sheet, phaseId)
        x1 == [e.x EXCEPT !.tr.startSent = TRUE, !.tr.phaseId = phaseId,
                          !.tr.openAtStart = HasOpenLog(e.x.logs, op)
                                             \/ HasOpenDead(e.x.dead, op),
                          !.tr.heldAtStart = HeldOpen(base, e.x.logs),
                          !.cs.currentStage = "production",
                          !.cs.currentStagePhaseId = phaseId,
                          !.cs.stageSeconds = 0,
                          !.cs.stageTimer = TRUE]
        r == ServerStartPhase(x1.logs, x1.dead,
                 [operatorUsername |-> op, sheetId |-> base.sheet.id,
                  phaseId |-> phaseId, stage |-> "production", startTime |-> x.now,
                  totalQuantity |-> remainingForPhase])
        def == PhaseDef(base.sheet, phaseId)
        planned == def.productionTimePerPiece * remainingForPhase
    IN  IF e.x.threw \/ ~e.ok THEN e.x
        ELSE IF base.sheet = NoSheet THEN e.x
        ELSE IF remainingForPhase <= 0 THEN e.x
        ELSE IF ~net.startPhase THEN [x1 EXCEPT !.tr.startRes = "neterr", !.threw = TRUE]
        ELSE IF r.res # "ok" THEN [x1 EXCEPT !.tr.startRes = r.res, !.threw = TRUE]
        ELSE [x1 EXCEPT
                 !.logs = r.logs, !.tr.startRes = "ok",
                 !.cs.activeLog = r.id,
                 !.live[op] = IF net.startLivePhase
                              THEN [sheetId |-> base.sheet.id, phaseId |-> phaseId,
                                    status |-> "production", plannedTime |-> planned,
                                    startTime |-> x.now]
                              ELSE @]

\* Variant of startProductionStage that plans for the full sheet quantity
startProductionStage_PlannedFullQty(op, base, x, phaseId, choice, net) ==
    LET e == ensurePreviousPhaseClosed(op, base, x, choice, net)
        remainingForPhase == computeRemainingForPhase(base.sheet, phaseId)
        x1 == [e.x EXCEPT !.tr.startSent = TRUE, !.tr.phaseId = phaseId,
                          !.tr.openAtStart = HasOpenLog(e.x.logs, op)
                                             \/ HasOpenDead(e.x.dead, op),
                          !.tr.heldAtStart = HeldOpen(base, e.x.logs)]
        r == ServerStartPhase(x1.logs, x1.dead,
                 [operatorUsername |-> op, sheetId |-> base.sheet.id,
                  phaseId |-> phaseId, stage |-> "production", startTime |-> x.now,
                  totalQuantity |-> remainingForPhase])
        def == PhaseDef(base.sheet, phaseId)
        planned == def.productionTimePerPiece * base.sheet.quantity
    IN  IF e.x.threw \/ ~e.ok THEN e.x
        ELSE IF base.sheet = NoSheet THEN e.x
        ELSE IF remainingForPhase <= 0 THEN e.x
        ELSE IF ~net.startPhase THEN [x1 EXCEPT !.tr.startRes = "neterr", !.threw = TRUE]
        ELSE IF r.res # "ok" THEN [x1 EXCEPT !.tr.startRes = r.res, !.threw = TRUE]
        ELSE [x1 EXCEPT
                 !.logs = r.logs, !.tr.startRes = "ok",
                 !.cs.activeLog = r.id,
                 !.live[op] = IF net.startLivePhase
                              THEN [sheetId |-> base.sheet.id, phaseId |-> phaseId,
                                    status |-> "production", plannedTime |-> planned,
                                    startTime |-> x.now]
                              ELSE @,
                 !.cs.currentStage = "production",
                 !.cs.currentStagePhaseId = phaseId,
                 !.cs.stageSeconds = 0,
                 !.cs.stageTimer = TRUE]

startProductionStage(op, base, x, phaseId, choice, net) ==
    LET e == ensurePreviousPhaseClosed(op, base, x, choice, net)
        remainingForPhase == computeRemainingForPhase(base.sheet, phaseId)
        times == IF phaseId \in DOMAIN base.pendingStageTimes
                 THEN base.pendingStageTimes[phaseId]
                 ELSE [find |-> 0, setup |-> 0]
        x1 == [e.x EXCEPT !.tr.startSent = TRUE, !.tr.phaseId = phaseId,
                          !.tr.openAtStart = HasOpenLog(e.x.logs, op)
                                             \/ HasOpenDead(e.x.dead, op),
                          !.tr.heldAtStart = HeldOpen(base, e.x.logs)]
        r == ServerStartPhase(x1.logs, x1.dead,
                 [operatorUsername |-> op, sheetId |-> base.sheet.id,
                  phaseId |-> phaseId, stage |-> "production", startTime |-> x.now,
                  totalQuantity |-> remainingForPhase,
                  findMaterialTime |-> times.find, setupTime |-> times.setup])
        def == PhaseDef(base.sheet, phaseId)
        planned == def.productionTimePerPiece * remainingForPhase
    IN  IF e.x.threw \/ ~e.ok THEN e.x
        ELSE IF base.sheet = NoSheet THEN e.x
        ELSE IF remainingForPhase <= 0 THEN e.x
        ELSE IF ~net.startPhase THEN [x1 EXCEPT !.tr.startRes = "neterr", !.threw = TRUE]
        ELSE IF r.res # "ok" THEN [x1 EXCEPT !.tr.startRes = r.res, !.threw = TRUE]
        ELSE [x1 EXCEPT
                 !.logs = r.logs, !.tr.startRes = "ok",
                 !.cs.activeLog = r.id,
                 !.cs.pendingStageTimes =
                     [p \in DOMAIN @ |-> IF p = phaseId
                                         THEN [find |-> 0, setup |-> 0] ELSE @[p]],
                 !.live[op] = IF net.startLivePhase
                              THEN [sheetId |-> base.sheet.id, phaseId |-> phaseId,
                                    status |-> "production", plannedTime |-> planned,
                                    startTime |-> x.now]
                              ELSE @,
                 !.cs.currentStage = "production",
                 !.cs.currentStagePhaseId = phaseId,
                 !.cs.stageSeconds = 0,
                 !.cs.stageTimer = TRUE]

\* Variant of resumeActivePhase that leaves the seconds counter as it is
resumeActivePhase_KeepSeconds(op, x, freshSheet, net) ==
    LET status == getLiveStatus(x.live, x.dead, x.now)
        found  == IF net.getLiveStatus
                  THEN {a \in status.active : a.username = op} ELSE {}
        active == CHOOSE a \in found : TRUE
        byLive == {i \in DOMAIN freshSheet.phaseLogs :
                     freshSheet.phaseLogs[i].id = Prop(active, "phase_log_id")}
        mine   == {i \in DOMAIN freshSheet.phaseLogs :
                     /\ freshSheet.phaseLogs[i].operatorUsername = op
                     /\ freshSheet.phaseLogs[i].endTime = "null"}
        secs(log) == IF log.startTime # 0 THEN Max(0, x.now - log.startTime) ELSE 0
        resume(log, seconds) == [x EXCEPT !.cs.activeLog = log.id,
                                          !.cs.currentStage = log.stage,
                                          !.cs.currentStagePhaseId = log.phaseId,
                                          !.cs.stageTimer = TRUE]
        byLiveLog == freshSheet.phaseLogs[CHOOSE i \in byLive : \A j \in byLive : i <= j]
        openLog == freshSheet.phaseLogs[CHOOSE i \in mine : \A j \in mine : i <= j]
    IN  IF found # {} /\ Prop(active, "sheet_id") # freshSheet.id
        THEN x      \* "Active job in progress" modal, OK
        ELSE IF found # {} /\ Prop(active, "phase_log_id") # "undefined" /\ byLive # {}
        THEN resume(byLiveLog, IF Prop(active, "running_seconds") = "undefined"
                               THEN 0 ELSE Prop(active, "running_seconds"))
        ELSE IF mine = {} THEN x
        ELSE resume(openLog, secs(openLog))

resumeActivePhase(op, x, freshSheet, net) ==
    LET status == getLiveStatus(x.live, x.dead, x.now)
        found  == IF net.getLiveStatus
                  THEN {a \in status.active : a.username = op} ELSE {}
        active == CHOOSE a \in found : TRUE
        byLive == {i \in DOMAIN freshSheet.phaseLogs :
                     freshSheet.phaseLogs[i].id = Prop(active, "phase_log_id")}
        mine   == {i \in DOMAIN freshSheet.phaseLogs :
                     /\ freshSheet.phaseLogs[i].operatorUsername = op
                     /\ freshSheet.phaseLogs[i].endTime = "null"}
        secs(log) == IF log.startTime # 0 THEN Max(0, x.now - log.startTime) ELSE 0
        resume(log, seconds) == [x EXCEPT !.cs.activeLog = log.id,
                                          !.cs.currentStage = log.stage,
                                          !.cs.currentStagePhaseId = log.phaseId,
                                          !.cs.stageSeconds = seconds,
                                          !.cs.stageTimer = TRUE]
        byLiveLog == freshSheet.phaseLogs[CHOOSE i \in byLive : \A j \in byLive : i <= j]
        openLog == freshSheet.phaseLogs[CHOOSE i \in mine : \A j \in mine : i <= j]
    IN  IF found # {} /\ Prop(active, "sheet_id") # freshSheet.id
        THEN x      \* "Active job in progress" modal, OK
        ELSE IF found # {} /\ Prop(active, "phase_log_id") # "undefined" /\ byLive # {}
        THEN resume(byLiveLog, IF Prop(active, "running_seconds") = "undefined"
                               THEN 0 ELSE Prop(active, "running_seconds"))
        ELSE IF mine = {} THEN x
        ELSE resume(openLog, secs(openLog))

handleScanSuccess(op, x, decodedText, net) ==
    LET data == getProductionSheetByQr(x.logs, decodedText)
        x1 == [x EXCEPT !.cs.sheet = data]
        hasPhase2or30 == \E i \in DOMAIN data.phases : data.phases[i].phaseId \in {"2", "30"}
        phase2or30Done ==
            \E i \in DOMAIN data.phaseLogs :
                /\ data.phaseLogs[i].phaseId \in {"2", "30"}
                /\ data.phaseLogs[i].endTime # "null"
                /\ data.phaseLogs[i].quantityDone >= data.quantity
    IN  IF ~net.getSheet THEN [x EXCEPT !.cs.viewState = "idle"]
        ELSE IF hasPhase2or30 /\ ~phase2or30Done /\ ~net.getMaterials
        THEN [x1 EXCEPT !.cs.viewState = "idle"]
        ELSE [resumeActivePhase(op, x1, data, net) EXCEPT !.cs.viewState = "details"]

\* Variant of resetView that closes the running record before leaving
resetView_FinishActive(x) ==
    [x EXCEPT !.logs = IF x.cs.activeLog = 0 THEN @
                       ELSE ServerFinishPhase(@, x.cs.activeLog, 0, x.cs.stageSeconds),
              !.cs = [viewState |-> "idle", sheet |-> NoSheet, activeLog |-> 0,
                      currentStage |-> "none", currentStagePhaseId |-> "none",
                      stageTimer |-> FALSE, stageSeconds |-> 0,
                      pendingStageTimes |-> NoPending]]

resetView(x) ==
    [x EXCEPT !.cs = [viewState |-> "idle", sheet |-> NoSheet, activeLog |-> 0,
                      currentStage |-> "none", currentStagePhaseId |-> "none",
                      stageTimer |-> FALSE, stageSeconds |-> 0,
                      pendingStageTimes |-> NoPending]]

(***************************************************************************)
(* DeadTimeView: state and handlers                                        *)
(***************************************************************************)
\* One code of each requirement tier of DEAD_CODES
DEAD_CODES ==
    { [code |-> 10, requiresProductManual |-> FALSE, requiresProductOrSheet |-> FALSE],
      [code |-> 60, requiresProductManual |-> TRUE,  requiresProductOrSheet |-> FALSE],
      [code |-> 70, requiresProductManual |-> FALSE, requiresProductOrSheet |-> TRUE] }

\* activeDead is kept as the id of the record (0 = null); of activePhase only
\* null / non-null is read
InitDeadView == [activeDead |-> 0, activePhase |-> FALSE]

\* The form: selected code (0 = none), typed product id, scanned sheet
\* ("none" = null; a scan sets the sheet id and the product id together)
DeadForms ==
    { f \in [selectedCode : {0} \cup {c.code : c \in DEAD_CODES},
             manualProductId : {<<>>, <<" ">>, <<"P">>},
             scannedSheetId : {"none", "S1"}] :
        LET metas == {c \in DEAD_CODES : c.code = f.selectedCode}
            meta == CHOOSE c \in metas : TRUE
        IN  \* the inputs exist only for the codes that take them
            /\ (f.manualProductId # <<>> =>
                    metas # {} /\ (meta.requiresProductManual \/ meta.requiresProductOrSheet))
            /\ (f.scannedSheetId # "none" => metas # {} /\ meta.requiresProductOrSheet) }

\* Variant of canStart that does not trim the typed product id
canStart_NoTrim(f) ==
    LET metas == {c \in DEAD_CODES : c.code = f.selectedCode}
        currentCodeMeta == CHOOSE c \in metas : TRUE
    IN  IF f.selectedCode = 0 THEN FALSE
        ELSE IF metas # {} /\ currentCodeMeta.requiresProductManual
        THEN Len(f.manualProductId) > 0
        ELSE IF metas # {} /\ currentCodeMeta.requiresProductOrSheet
        THEN Len(f.manualProductId) > 0 \/ f.scannedSheetId # "none"
        ELSE TRUE

canStart(f) ==
    LET metas == {c \in DEAD_CODES : c.code = f.selectedCode}
        currentCodeMeta == CHOOSE c \in metas : TRUE
    IN  IF f.selectedCode = 0 THEN FALSE
        ELSE IF metas # {} /\ currentCodeMeta.requiresProductManual
        THEN Len(trim(f.manualProductId)) > 0
        ELSE IF metas # {} /\ currentCodeMeta.requiresProductOrSheet
        THEN Len(trim(f.manualProductId)) > 0 \/ f.scannedSheetId # "none"
        ELSE TRUE

\* A running DeadTimeView handler
BeginDead(op) ==
    [dv |-> deadView[op], dead |-> deadLogs, now |-> now, tr |-> NoTrace]

\* mount effect: load()
deadLoad(op, x, liveTbl, net) ==
    LET status == getLiveStatus(liveTbl, x.dead, x.now)
        myDead == {d \in status.dead : d.username = op}
        myPhase == {a \in status.active : a.username = op}
    IN  IF ~net.getLiveStatus THEN x
        ELSE IF myDead # {}
        THEN [x EXCEPT !.dv = [activeDead |-> (CHOOSE d \in myDead : TRUE).id,
                               activePhase |-> FALSE]]
        ELSE [x EXCEPT !.dv.activePhase = (myPhase # {})]

handleStart(op, x, L, f, net) ==
    LET r == ServerStartDeadTime(L, x.dead, [username |-> op, code |-> f.selectedCode])
        x1 == [x EXCEPT !.tr.startSent = TRUE,
                        !.tr.openAtStart = HasOpenLog(L, op) \/ HasOpenDead(x.dead, op)]
    IN  IF f.selectedCode = 0 THEN x
        ELSE IF ~canStart(f) THEN x
        ELSE IF x.dv.activeDead # 0 THEN x
        ELSE IF x.dv.activePhase THEN x
        ELSE IF ~net.startDeadTime THEN [x1 EXCEPT !.tr.startRes = "neterr"]
        ELSE IF r.res # "ok" THEN [x1 EXCEPT !.tr.startRes = r.res]
        ELSE [x1 EXCEPT !.dead = r.dead, !.tr.startRes = "ok", !.dv.activeDead = r.id]

\* Variant of handleFinish that clears activeDead before the request
handleFinish_ClearFirst(op, x, liveTbl, net) ==
    IF x.dv.activeDead = 0 THEN x
    ELSE IF ~net.finishDeadTime
    THEN [x EXCEPT !.tr.finishSent = TRUE, !.tr.finishRes = "neterr",
                   !.dv.activeDead = 0]
    ELSE
        LET x1 == [x EXCEPT !.dead = ServerFinishDeadTime(@, x.dv.activeDead),
                            !.tr.finishSent = TRUE, !.tr.finishRes = "ok",
                            !.dv.activeDead = 0]
            status == getLiveStatus(liveTbl, x1.dead, x.now)
        IN  IF ~net.getLiveStatus THEN x1
            ELSE [x1 EXCEPT !.dv.activePhase = ({a \in status.active : a.username = op} # {})]

handleFinish(op, x, liveTbl, net) ==
    IF x.dv.activeDead = 0 THEN x
    ELSE IF ~net.finishDeadTime
    THEN [x EXCEPT !.tr.finishSent = TRUE, !.tr.finishRes = "neterr"]
    ELSE
        LET x1 == [x EXCEPT !.dead = ServerFinishDeadTime(@, x.dv.activeDead),
                            !.tr.finishSent = TRUE, !.tr.finishRes = "ok",
                            !.dv.activeDead = 0]
            status == getLiveStatus(liveTbl, x1.dead, x.now)
        IN  IF ~net.getLiveStatus THEN x1
            ELSE [x1 EXCEPT !.dv.activePhase = ({a \in status.active : a.username = op} # {})]

(***************************************************************************)
(* components/MachineOperatorView.tsx: state and handlers                  *)
(***************************************************************************)
\* useState / useRef initial values; the three interval timers are refs and
\* are kept as "running" flags
InitMachineView ==
    [viewState |-> "idle", sheet |-> NoSheet, activeLog |-> 0,
     findMaterialTimer |-> FALSE, setupTimer |-> FALSE, productionTimer |-> FALSE]

\* A running handler of components/MachineOperatorView.tsx
BeginMachine(op) ==
    [cs |-> machineView[op], logs |-> logs, live |-> live, dead |-> deadLogs,
     now |-> now, tr |-> NoTrace, threw |-> FALSE]

stopProduction(x) == [x EXCEPT !.cs.productionTimer = FALSE]

handleScanSuccessTsx(x, s, net) ==
    IF ~net.getSheet THEN [x EXCEPT !.cs.viewState = "idle"]
    ELSE [x EXCEPT !.cs.sheet = getProductionSheetByQr(x.logs, s),
                   !.cs.viewState = "details",
                   !.tr.reloaded = TRUE]

handleFinishPhase(op, base, x, isPartial, input, net) ==
    IF base.activeLog = 0 \/ base.sheet = NoSheet THEN x
    ELSE
        LET phaseId   == x.logs[base.activeLog].phaseId
            remainingForPhase == computeRemainingForPhase(base.sheet, phaseId)
            x0 == [x EXCEPT !.tr.isPartial = isPartial,
                            !.tr.input = IF isPartial THEN input ELSE <<>>]
            \* parseInt(qtyStr || "0", 10)
            qty == parseInt(IF input = PromptCancelled \/ input = <<>>
                            THEN <<"0">> ELSE input)
            \* a NaN passes both comparisons
            invalid == isPartial /\ ~qty.nan
                       /\ (qty.val <= 0 \/ qty.val > remainingForPhase)
            quantityDone == IF isPartial THEN qty.val ELSE remainingForPhase
            x1 == stopProduction(x0)
        IN  IF remainingForPhase <= 0 THEN x0
            ELSE IF invalid THEN x0
            ELSE IF ~net.finishPhase
            THEN [x1 EXCEPT !.tr.finishSent = TRUE, !.tr.finishRes = "neterr"]
            ELSE handleScanSuccessTsx(
                     [x1 EXCEPT
                         \* productionSeconds: no second passes in this view
                         !.logs = ServerFinishPhase(@, base.activeLog, quantityDone, 0),
                         !.live[op] = IF net.stopLivePhase THEN NoLive ELSE @,
                         !.tr.finishSent = TRUE, !.tr.finishRes = "ok",
                         !.cs.activeLog = 0],
                     base.sheet.id, net)

\* choice: "full" = Finish FULLY; "partial" = Next Options, Finish PARTIALLY;
\* "abort" = Next Options, Abort
ensurePreviousPhaseClosedTsx(op, base, x, choice, input, net) ==
    IF base.activeLog = 0 THEN [ok |-> TRUE, x |-> x]
    ELSE
        LET x0 == [x EXCEPT !.tr.dialog = choice]
        IN  IF choice = "full"
            THEN [ok |-> TRUE, x |-> handleFinishPhase(op, base, x0, FALSE, <<>>, net)]
            ELSE IF choice = "partial"
            THEN [ok |-> TRUE, x |-> handleFinishPhase(op, base, x0, TRUE, input, net)]
            ELSE [ok |-> FALSE, x |-> x0]

\* api.startLivePhase(...) fired without await inside its own try
startLive(op, base, x, phaseId, status, plannedTime, net) ==
    IF base.sheet = NoSheet \/ PhaseIndex(base.sheet, phaseId) = 0 \/ ~net.startLivePhase
    THEN x
    ELSE [x EXCEPT !.live[op] = [sheetId |-> base.sheet.id, phaseId |-> phaseId,
                                 status |-> status, plannedTime |-> plannedTime,
                                 startTime |-> x.now]]

startFindMaterial(op, base, x, phaseId, choice, input, net) ==
    LET e == ensurePreviousPhaseClosedTsx(op, base, x, choice, input, net)
        def == PhaseDef(base.sheet, phaseId)
        remainingQty == computeRemainingForPhase(base.sheet, phaseId)
        plannedTime == def.setupTime + def.productionTimePerPiece * remainingQty
    IN  IF ~e.ok THEN e.x
        ELSE IF e.x.cs.findMaterialTimer THEN e.x
        ELSE [startLive(op, base, e.x, phaseId, "search", plannedTime, net)
                 EXCEPT !.cs.findMaterialTimer = TRUE]

startSetupForPhase(op, base, x, phaseId, choice, input, net) ==
    LET e == ensurePreviousPhaseClosedTsx(op, base, x, choice, input, net)
        def == PhaseDef(base.sheet, phaseId)
        x1 == startLive(op, base, e.x, phaseId, "setup", def.setupTime, net)
    IN  IF ~e.ok THEN e.x
        ELSE IF x1.cs.setupTimer THEN x1
        ELSE [x1 EXCEPT !.cs.setupTimer = TRUE]

stopFindMaterialAndStartSetup(op, base, x, phaseId, choice, input, net) ==
    IF ~x.cs.findMaterialTimer THEN x
    ELSE startSetupForPhase(op, base, [x EXCEPT !.cs.findMaterialTimer = FALSE],
                            phaseId, choice, input, net)

handleStartPhase(op, base, x, phaseId, choice, input, net) ==
    LET e == ensurePreviousPhaseClosedTsx(op, base, x, choice, input, net)
        x1 == [e.x EXCEPT !.tr.startSent = TRUE, !.tr.phaseId = phaseId,
                          !.tr.openAtStart = HasOpenLog(e.x.logs, op)
                                             \/ HasOpenDead(e.x.dead, op)]
        r == ServerStartPhase(x1.logs, x1.dead,
                 [operatorUsername |-> op, sheetId |-> base.sheet.id,
                  phaseId |-> phaseId, stage |-> "production", startTime |-> x.now,
                  totalQuantity |-> base.sheet.quantity])
        def == PhaseDef(base.sheet, phaseId)
        remainingQty == computeRemainingForPhase(base.sheet, phaseId)
        plannedTime == def.productionTimePerPiece * remainingQty
    IN  IF ~e.ok THEN e.x
        ELSE IF base.sheet = NoSheet THEN e.x
        ELSE IF ~net.startPhase THEN [x1 EXCEPT !.tr.startRes = "neterr"]
        ELSE IF r.res # "ok" THEN [x1 EXCEPT !.tr.startRes = r.res]
        ELSE startLive(op, base,
                 [x1 EXCEPT !.logs = r.logs, !.tr.startRes = "ok",
                            !.cs.activeLog = r.id],
                 phaseId, "production", plannedTime, net)

\* choice1 answers the dialog of stopSetupAndStartProduction, choice2 the one
\* handleStartPhase opens again from the same closure
stopSetupAndStartProduction(op, base, x, phaseId, choice1, choice2, input, net) ==
    LET e == ensurePreviousPhaseClosedTsx(op, base, x, choice1, input, net)
    IN  IF ~e.ok THEN e.x
        ELSE IF ~e.x.cs.setupTimer THEN e.x
        ELSE [handleStartPhase(op, base, [e.x EXCEPT !.cs.setupTimer = FALSE],
                               phaseId, choice2, input, net)
                 EXCEPT !.cs.productionTimer = TRUE]

resetViewTsx(x) ==
    [x EXCEPT !.cs.sheet = NoSheet, !.cs.activeLog = 0,
              !.cs.findMaterialTimer = FALSE, !.cs.setupTimer = FALSE,
              !.cs.productionTimer = FALSE, !.cs.viewState = "idle"]

\* Details view: the phase at `index` shows the finish buttons (myActiveLog)
myActiveLog(op, cs, L, index) ==
    LET phaseId == cs.sheet.phases[index].phaseId
    IN  IF cs.activeLog # 0 /\ L[cs.activeLog].phaseId = phaseId
        THEN TRUE
        ELSE \E i \in DOMAIN cs.sheet.phaseLogs :
               /\ cs.sheet.phaseLogs[i].endTime = "null"
               /\ cs.sheet.phaseLogs[i].phaseId = phaseId
               /\ cs.sheet.phaseLogs[i].operatorUsername = op

\* Details view: the phase at `index` shows its start buttons
\* (!myActiveLog && canStartQty > 0 && isUnlocked)
StartButtonsShownTsx(op, cs, L, index) ==
    LET sheet      == cs.sheet
        phaseId    == sheet.phases[index].phaseId
        prevDone   == IF index = 1 THEN sheet.quantity
                      ELSE doneByPhase(sheet, sheet.phases[index - 1].phaseId)
        isUnlocked == IF index = 1 THEN TRUE
                      ELSE doneByPhase(sheet, sheet.phases[index - 1].phaseId) > 0
        canStartQty == Max(0, prevDone - doneByPhase(sheet, phaseId))
    IN  /\ ~myActiveLog(op, cs, L, index)
        /\ canStartQty > 0
        /\ isUnlocked

(***************************************************************************)
(* LivePhasesView: state, load and the polling effect                      *)
(***************************************************************************)
\* useState initial value of data
EmptyLiveData == [active |-> {}, dead |-> {}, idle |-> {}]

\* The view before it is mounted. interval: the setInterval handle exists;
\* inflight: the getLiveStatus calls awaited by running load() calls, each
\* with the number of its poll and the answer the store computed for it;
\* issued, shown, settled, settledOk record the polls made, the poll whose
\* answer is displayed, and the poll that settled last and how.
InitLivePhases ==
    [interval |-> FALSE, data |-> EmptyLiveData, inflight |-> {},
     issued |-> 0, shown |-> 0, settled |-> 0, settledOk |-> TRUE]

\* load(), up to the await: the request leaves
loadCall(d, res) ==
    [d EXCEPT !.issued = @ + 1,
              !.inflight = @ \cup {[seq |-> d.issued + 1, res |-> res]}]

\* Variant of load that empties the displayed data when getLiveStatus rejects
load_ClearOnFailure(d, p, ok) ==
    LET d1 == [d EXCEPT !.inflight = @ \ {p}, !.settled = p.seq, !.settledOk = ok]
    IN  IF ok THEN [d1 EXCEPT !.data = p.res, !.shown = p.seq]
        ELSE [d1 EXCEPT !.data = EmptyLiveData]

\* load(), after the await: setData(res) when getLiveStatus resolved; when it
\* rejected, load() rejects and nothing else runs
load(d, p, ok) ==
    LET d1 == [d EXCEPT !.inflight = @ \ {p}, !.settled = p.seq, !.settledOk = ok]
    IN  IF ok THEN [d1 EXCEPT !.data = p.res, !.shown = p.seq]
        ELSE d1

\* What the view renders: the three lists of data, and nothing else
Rendered(d) == [active |-> d.data.active, dead |-> d.data.dead, idle |-> d.data.idle]

CommitLive(handler, d) ==
    /\ livePhases' = d
    /\ ev' = [op |-> "none", handler |-> handler, tr |-> NoTrace]
    /\ UNCHANGED <<logs, deadLogs, live, client, deadView, now, machineView>>

\* useEffect on mount: load(); setInterval(load, 5000)
LiveMount ==
    /\ ~livePhases.interval
    /\ livePhases.issued < MaxPolls
    /\ CommitLive("mount",
           [loadCall([livePhases EXCEPT !.data = EmptyLiveData],
                     getLiveStatus(live, deadLogs, now))
               EXCEPT !.interval = TRUE])

\* The interval fires: load()
LiveInterval ==
    /\ livePhases.interval
    /\ livePhases.issued < MaxPolls
    /\ CommitLive("interval", loadCall(livePhases, getLiveStatus(live, deadLogs, now)))

\* A getLiveStatus call settles, in any order, resolved or rejected
LiveSettle ==
    \E p \in livePhases.inflight, ok \in BOOLEAN :
        CommitLive("load", load(livePhases, p, ok))

\* useEffect cleanup: clearInterval; calls still in flight settle on a view
\* that is gone
LiveUnmount ==
    /\ livePhases.interval
    /\ CommitLive("unmount", [livePhases EXCEPT !.interval = FALSE, !.inflight = {}])

(***************************************************************************)
(* Actions: one per handler                                                *)
(***************************************************************************)
Commit(op, handler, y) ==
    /\ client' = [client EXCEPT ![op] = y.cs]
    /\ logs' = y.logs
    /\ live' = y.live
    /\ ev' = [op |-> op, handler |-> handler, tr |-> y.tr]
    /\ UNCHANGED <<deadLogs, deadView, now, machineView, livePhases>>

CommitDead(op, handler, y) ==
    /\ deadView' = [deadView EXCEPT ![op] = y.dv]
    /\ deadLogs' = y.dead
    /\ ev' = [op |-> op, handler |-> handler, tr |-> y.tr]
    /\ UNCHANGED <<logs, live, client, now, machineView, livePhases>>

\* The buttons of the "still running" dialog, when it is shown
Choices(op) == IF client[op].activeLog = 0 THEN {"none"} ELSE {"finish", "cancel"}

\* Outcomes of a round trip that is made only if b (left unanswered: TRUE)
NetIf(b) == IF b THEN BOOLEAN ELSE {TRUE}

\* The scanner decodes the QR of sheet s (idle view -> scanning -> onScanSuccess)
HandleScanSuccess(op, s) ==
    /\ client[op].viewState = "idle"
    /\ \E g \in BOOLEAN : \E m, l \in NetIf(g) :
          Commit(op, "handleScanSuccess",
                 handleScanSuccess(op, Begin(op), s,
                     [NetOk EXCEPT !.getSheet = g, !.getMaterials = m, !.getLiveStatus = l]))

\* "Scan another"
ResetView(op) ==
    /\ client[op].viewState = "details"
    /\ Commit(op, "resetView", resetView(Begin(op)))

DetailsShown(op) ==
    client[op].viewState = "details" /\ client[op].sheet # NoSheet

\* "Find Material" / "Start Setup" of a phase whose start buttons are shown
StartSimpleStage(op) ==
    /\ DetailsShown(op)
    /\ Len(logs) < MaxLogs
    /\ \E index \in DOMAIN client[op].sheet.phases, stage \in {"find", "setup"},
          choice \in Choices(op) :
      \E fp \in NetIf(choice = "finish") :
      \E tl, g \in NetIf(choice = "finish" /\ fp), sp \in BOOLEAN : \E sl \in NetIf(sp) :
          LET phase == client[op].sheet.phases[index]
          IN  /\ StartButtonsShown(client[op], index)
              /\ IF stage = "find" THEN phase.phaseId \in {"2", "30"}
                                    ELSE phase.setupTime > 0
              /\ Commit(op, "startSimpleStage",
                     startSimpleStage(op, client[op], Begin(op), phase.phaseId, stage, choice,
                         [NetOk EXCEPT !.startPhase = sp, !.startLivePhase = sl,
                                       !.finishPhase = fp, !.stopLivePhase = tl,
                                       !.getSheet = g]))

\* "Start Production" of a phase whose start buttons are shown
StartProductionStage(op) ==
    /\ DetailsShown(op)
    /\ Len(logs) < MaxLogs
    /\ \E index \in DOMAIN client[op].sheet.phases,
          choice \in Choices(op) :
      \E fp \in NetIf(choice = "finish") :
      \E tl, g \in NetIf(choice = "finish" /\ fp), sp \in BOOLEAN : \E sl \in NetIf(sp) :
          /\ StartButtonsShown(client[op], index)
          /\ Commit(op, "startProductionStage",
                 startProductionStage(op, client[op], Begin(op),
                     client[op].sheet.phases[index].phaseId, choice,
                     [NetOk EXCEPT !.startPhase = sp, !.startLivePhase = sl,
                                   !.finishPhase = fp, !.stopLivePhase = tl,
                                   !.getSheet = g]))

\* The running phase of the details view (isMyCurrentPhase)
IsMyCurrentPhase(op) ==
    /\ DetailsShown(op)
    /\ client[op].currentStage # "none"
    /\ PhaseIndex(client[op].sheet, client[op].currentStagePhaseId) # 0

\* "Finish" of the running find / setup stage
FinishSimpleStage(op) ==
    /\ IsMyCurrentPhase(op)
    /\ client[op].currentStage \in {"find", "setup"}
    /\ \E fp \in BOOLEAN : \E tl \in NetIf(fp) :
          Commit(op, "finishSimpleStage",
                 finishSimpleStage(op, client[op], Begin(op),
                     [NetOk EXCEPT !.finishPhase = fp, !.stopLivePhase = tl]))

\* "Finish partial" / "Finish full" of the running production stage
FinishProductionStage(op) ==
    /\ IsMyCurrentPhase(op)
    /\ client[op].currentStage = "production"
    /\ \E isPartial \in BOOLEAN :
      \E input \in IF isPartial THEN PromptInputs \cup {PromptCancelled} ELSE {<<>>} :
      \E fp \in NetIf(finishProductionStage(op, client[op], Begin(op), isPartial, input,
                                             NetOk).tr.finishSent) :
      \E tl, g \in NetIf(fp) :
          Commit(op, "finishProductionStage",
                 finishProductionStage(op, client[op], Begin(op), isPartial, input,
                     [NetOk EXCEPT !.finishPhase = fp, !.stopLivePhase = tl,
                                   !.getSheet = g]))

\* The dead-time view is (re)mounted: fresh state, then load()
DeadMount(op) ==
    \E l \in BOOLEAN :
        CommitDead(op, "deadLoad",
            deadLoad(op, [BeginDead(op) EXCEPT !.dv = InitDeadView], live,
                     [NetOk EXCEPT !.getLiveStatus = l]))

\* "Start Dead Time" (enabled when a code is chosen and canStart())
DeadHandleStart(op) ==
    /\ deadView[op].activeDead = 0
    /\ ~deadView[op].activePhase
    /\ Len(deadLogs) < MaxDead
    /\ \E f \in DeadForms, sd \in BOOLEAN :
          /\ f.selectedCode # 0
          /\ canStart(f)
          /\ CommitDead(op, "handleStart",
                 handleStart(op, BeginDead(op), logs, f,
                     [NetOk EXCEPT !.startDeadTime = sd]))

\* "Finish" of the active dead time
DeadHandleFinish(op) ==
    /\ deadView[op].activeDead # 0
    /\ \E fd \in BOOLEAN : \E l \in NetIf(fd) :
          CommitDead(op, "handleFinish",
              handleFinish(op, BeginDead(op), live,
                  [NetOk EXCEPT !.finishDeadTime = fd, !.getLiveStatus = l]))

Init ==
    /\ logs = <<>>
    /\ deadLogs = <<>>
    /\ live = [u \in Operators |-> NoLive]
    /\ client = [u \in Operators |-> InitClient]
    /\ deadView = [u \in Operators |-> InitDeadView]
    /\ ev = [op |-> "none", handler |-> "init", tr |-> NoTrace]
    /\ now = 1
    /\ machineView = [u \in Operators |-> InitMachineView]
    /\ livePhases = InitLivePhases

\* One operator with both views and every sheet
Next ==
    \E op \in {"op1"} :
        \/ \E s \in SheetIds : HandleScanSuccess(op, s)
        \/ ResetView(op)
        \/ StartSimpleStage(op)
        \/ StartProductionStage(op)
        \/ FinishSimpleStage(op)
        \/ FinishProductionStage(op)
        \/ DeadMount(op)
        \/ DeadHandleStart(op)
        \/ DeadHandleFinish(op)

Spec == Init /\ [][Next]_vars

\* The shop floor: every operator producing on the same sheet
NextFloor ==
    \E op \in Operators :
        \/ HandleScanSuccess(op, "S1")
        \/ ResetView(op)
        \/ StartProductionStage(op)
        \/ FinishProductionStage(op)

SpecFloor == Init /\ [][NextFloor]_vars

\* A second passes: the clock advances and every running interval timer
\* (setInterval(() => setStageSeconds(s => s + 1), 1000)) fires once
Tick ==
    /\ now < MaxNow
    /\ now' = now + 1
    /\ client' = [u \in Operators |->
                     IF client[u].stageTimer
                     THEN [client[u] EXCEPT !.stageSeconds = @ + 1]
                     ELSE client[u]]
    /\ ev' = [op |-> "none", handler |-> "tick", tr |-> NoTrace]
    /\ UNCHANGED <<logs, deadLogs, live, deadView, machineView, livePhases>>

\* One operator producing on one sheet while time passes
NextClock ==
    \/ Tick
    \/ \E op \in {"op1"} :
        \/ HandleScanSuccess(op, "S1")
        \/ ResetView(op)
        \/ StartProductionStage(op)
        \/ FinishProductionStage(op)

SpecClock == Init /\ [][NextClock]_vars

\* "Finish partial" / "Finish full" whose request reaches the store while the
\* response is lost: the record is closed, the client sees a failure
FinishProductionLost(op) ==
    /\ IsMyCurrentPhase(op)
    /\ client[op].currentStage = "production"
    /\ \E isPartial \in BOOLEAN :
      \E input \in IF isPartial THEN PromptInputs \cup {PromptCancelled} ELSE {<<>>} :
          /\ finishProductionStage(op, client[op], Begin(op), isPartial, input,
                                   NetOk).tr.finishSent
          /\ Commit(op, "finishProductionStage",
                 finishProductionStage(op, client[op], Begin(op), isPartial, input,
                     [NetOk EXCEPT !.finishPhase = FALSE, !.finishLost = TRUE]))

\* One operator producing on one sheet over a connection that loses responses
NextRetry ==
    \E op \in {"op1"} :
        \/ HandleScanSuccess(op, "S1")
        \/ ResetView(op)
        \/ StartProductionStage(op)
        \/ FinishProductionStage(op)
        \/ FinishProductionLost(op)

SpecRetry == Init /\ [][NextRetry]_vars

\* One operator going through find, setup and production on one sheet while
\* time passes
NextStages ==
    \/ Tick
    \/ \E op \in {"op1"} :
        \/ HandleScanSuccess(op, "S1")
        \/ StartSimpleStage(op)
        \/ FinishSimpleStage(op)
        \/ StartProductionStage(op)
        \/ FinishProductionStage(op)

SpecStages == Init /\ [][NextStages]_vars

(***************************************************************************)
(* LivePhasesView: the dashboard that polls the live status                *)
(***************************************************************************)
\* One operator in find and setup stages on one sheet while the dashboard polls
NextLive ==
    \/ LiveMount
    \/ LiveInterval
    \/ LiveSettle
    \/ LiveUnmount
    \/ \E op \in {"op1"} :
        \/ HandleScanSuccess(op, "S1")
        \/ StartSimpleStage(op)
        \/ FinishSimpleStage(op)

SpecLive == Init /\ [][NextLive]_vars

(***************************************************************************)
(* Actions of components/MachineOperatorView.tsx                           *)
(***************************************************************************)
CommitMachine(op, handler, y) ==
    /\ machineView' = [machineView EXCEPT ![op] = y.cs]
    /\ logs' = y.logs
    /\ live' = y.live
    /\ ev' = [op |-> op, handler |-> handler, tr |-> y.tr]
    /\ UNCHANGED <<deadLogs, deadView, now, client, livePhases>>

\* The buttons of the two-step "Previous Phase Still Running" dialog
ChoicesTsx(op) ==
    IF machineView[op].activeLog = 0 THEN {"none"} ELSE {"full", "partial", "abort"}

\* What is typed when the dialog leads to the partial-quantity prompt
InputsIf(b) == IF b THEN PromptInputs \cup {PromptCancelled} ELSE {<<>>}

MachineDetailsShown(op) ==
    machineView[op].viewState = "details" /\ machineView[op].sheet # NoSheet

HandleScanSuccessTsx(op, s) ==
    /\ machineView[op].viewState = "idle"
    /\ \E g \in BOOLEAN :
          CommitMachine(op, "handleScanSuccessTsx",
              handleScanSuccessTsx(BeginMachine(op), s, [NetOk EXCEPT !.getSheet = g]))

ResetViewTsx(op) ==
    /\ MachineDetailsShown(op)
    /\ CommitMachine(op, "resetViewTsx", resetViewTsx(BeginMachine(op)))

\* "Start Find Material" (phases "2" and "30", no find or setup timer running)
StartFindMaterial(op) ==
    /\ MachineDetailsShown(op)
    /\ ~machineView[op].findMaterialTimer /\ ~machineView[op].setupTimer
    /\ \E index \in DOMAIN machineView[op].sheet.phases, choice \in ChoicesTsx(op) :
      \E input \in InputsIf(choice = "partial"), fp \in NetIf(choice \in {"full", "partial"}),
         sl \in BOOLEAN :
      \E tl, g \in NetIf(choice \in {"full", "partial"} /\ fp) :
          LET phaseId == machineView[op].sheet.phases[index].phaseId
          IN  /\ StartButtonsShownTsx(op, machineView[op], logs, index)
              /\ phaseId \in {"2", "30"}
              /\ CommitMachine(op, "startFindMaterial",
                     startFindMaterial(op, machineView[op], BeginMachine(op), phaseId,
                         choice, input,
                         [NetOk EXCEPT !.startLivePhase = sl, !.finishPhase = fp,
                                       !.stopLivePhase = tl, !.getSheet = g]))

\* "Finish Find Material / Start Setup"
StopFindMaterialAndStartSetup(op) ==
    /\ MachineDetailsShown(op)
    /\ machineView[op].findMaterialTimer /\ ~machineView[op].setupTimer
    /\ \E index \in DOMAIN machineView[op].sheet.phases, choice \in ChoicesTsx(op) :
      \E input \in InputsIf(choice = "partial"), fp \in NetIf(choice \in {"full", "partial"}),
         sl \in BOOLEAN :
      \E tl, g \in NetIf(choice \in {"full", "partial"} /\ fp) :
          LET phaseId == machineView[op].sheet.phases[index].phaseId
          IN  /\ StartButtonsShownTsx(op, machineView[op], logs, index)
              /\ phaseId \in {"2", "30"}
              /\ CommitMachine(op, "stopFindMaterialAndStartSetup",
                     stopFindMaterialAndStartSetup(op, machineView[op], BeginMachine(op),
                         phaseId, choice, input,
                         [NetOk EXCEPT !.startLivePhase = sl, !.finishPhase = fp,
                                       !.stopLivePhase = tl, !.getSheet = g]))

\* "Start Setup" of a phase other than "2"/"30" that has a setup time
StartSetupForPhase(op) ==
    /\ MachineDetailsShown(op)
    /\ ~machineView[op].setupTimer
    /\ \E index \in DOMAIN machineView[op].sheet.phases, choice \in ChoicesTsx(op) :
      \E input \in InputsIf(choice = "partial"), fp \in NetIf(choice \in {"full", "partial"}),
         sl \in BOOLEAN :
      \E tl, g \in NetIf(choice \in {"full", "partial"} /\ fp) :
          LET phase == machineView[op].sheet.phases[index]
          IN  /\ StartButtonsShownTsx(op, machineView[op], logs, index)
              /\ phase.phaseId \notin {"2", "30"}
              /\ phase.setupTime > 0
              /\ CommitMachine(op, "startSetupForPhase",
                     startSetupForPhase(op, machineView[op], BeginMachine(op),
                         phase.phaseId, choice, input,
                         [NetOk EXCEPT !.startLivePhase = sl, !.finishPhase = fp,
                                       !.stopLivePhase = tl, !.getSheet = g]))

\* "Start Production" / "Start Phase": enabled while the setup timer runs, or
\* at once for a phase other than "2"/"30" without setup time, which calls
\* handleStartPhase directly
StartProductionTsx(op) ==
    /\ MachineDetailsShown(op)
    /\ Len(logs) < MaxLogs
    /\ \E index \in DOMAIN machineView[op].sheet.phases,
          choice1 \in ChoicesTsx(op), choice2 \in ChoicesTsx(op) :
      \E input \in InputsIf("partial" \in {choice1, choice2}),
         fp \in NetIf(choice1 # "abort" /\ choice1 # "none"), sp \in BOOLEAN :
      \E tl, g \in NetIf(choice1 # "abort" /\ choice1 # "none" /\ fp), sl \in NetIf(sp) :
          LET phase == machineView[op].sheet.phases[index]
              hasSetup == phase.setupTime > 0
              net == [NetOk EXCEPT !.startPhase = sp, !.startLivePhase = sl,
                                   !.finishPhase = fp, !.stopLivePhase = tl,
                                   !.getSheet = g]
          IN  /\ StartButtonsShownTsx(op, machineView[op], logs, index)
              /\ IF phase.phaseId \in {"2", "30"} THEN machineView[op].setupTimer
                 ELSE IF hasSetup THEN machineView[op].setupTimer
                 ELSE choice1 = choice2
              /\ IF phase.phaseId \in {"2", "30"} \/ hasSetup
                 THEN CommitMachine(op, "stopSetupAndStartProduction",
                          stopSetupAndStartProduction(op, machineView[op],
                              BeginMachine(op), phase.phaseId, choice1, choice2,
                              input, net))
                 ELSE CommitMachine(op, "handleStartPhase",
                          handleStartPhase(op, machineView[op], BeginMachine(op),
                              phase.phaseId, choice1, input, net))

\* "Finish partial" / "Finish full" of a phase that shows the finish buttons
HandleFinishPhase(op) ==
    /\ MachineDetailsShown(op)
    /\ \E index \in DOMAIN machineView[op].sheet.phases, isPartial \in BOOLEAN :
      \E input \in InputsIf(isPartial), fp \in BOOLEAN :
      \E tl, g \in NetIf(fp) :
          /\ myActiveLog(op, machineView[op], logs, index)
          /\ CommitMachine(op, "handleFinishPhase",
                 handleFinishPhase(op, machineView[op], BeginMachine(op), isPartial, input,
                     [NetOk EXCEPT !.finishPhase = fp, !.stopLivePhase = tl,
                                   !.getSheet = g]))

\* One operator working with components/MachineOperatorView.tsx
NextComponent ==
    \E op \in {"op1"} :
        \/ \E s \in SheetIds : HandleScanSuccessTsx(op, s)
        \/ ResetViewTsx(op)
        \/ StartFindMaterial(op)
        \/ StopFindMaterialAndStartSetup(op)
        \/ StartSetupForPhase(op)
        \/ StartProductionTsx(op)
        \/ HandleFinishPhase(op)

SpecComponent == Init /\ [][NextComponent]_vars

(***************************************************************************)
(* Properties                                                              *)
(***************************************************************************)
OpenLogsOf(u) ==
    {i \in DOMAIN logs : logs[i].operatorUsername = u /\ logs[i].endTime = "null"}

OpenDeadOf(u) ==
    {i \in DOMAIN deadLogs : deadLogs[i].username = u /\ deadLogs[i].endTime = "null"}

StartHandlers == {"startSimpleStage", "startProductionStage"}

\* C1: every operator has at most one open record, work logs and dead-time
\* records counted together; and a start request (startPhase or
\* startDeadTime) that reaches the store while its operator has an open
\* record is answered with a conflict and creates no record.
C1_SingleOpenRecord ==
    /\ [](\A u \in Operators :
            Cardinality(OpenLogsOf(u)) + Cardinality(OpenDeadOf(u)) <= 1)
    /\ [][ (ev'.tr.startSent /\ ev'.tr.openAtStart)
              => /\ ev'.tr.startRes \in {"conflict", "neterr"}
                 /\ Len(logs') = Len(logs)
                 /\ Len(deadLogs') = Len(deadLogs) ]_vars

\* A dead-time start reached the store while the operator had an open work
\* log, and was refused
C1_Witness ==
    /\ ev.handler = "handleStart"
    /\ ev.tr.startSent /\ ev.tr.openAtStart /\ ev.tr.startRes = "conflict"
    /\ OpenLogsOf(ev.op) # {}

RECURSIVE SumClosedProduction(_, _, _)
\* Quantity of phase pid of sheet s in the closed production records of ls
SumClosedProduction(ls, s, pid) ==
    IF ls = <<>> THEN 0
    ELSE (IF /\ Head(ls).sheetId = s /\ Head(ls).phaseId = pid
             /\ Head(ls).stage = "production" /\ Head(ls).endTime # "null"
          THEN Head(ls).quantityDone ELSE 0)
         + SumClosedProduction(Tail(ls), s, pid)

\* C2: in the store, the quantity of the closed production records of the
\* first phase of a sheet never exceeds the sheet quantity, and that of every
\* later phase never exceeds that of the phase before it.
C2_PipelineBound ==
    \A s \in SheetIds :
        LET ph == SheetDefs[s].phases
        IN  \A i \in DOMAIN ph :
                SumClosedProduction(logs, s, ph[i].phaseId)
                    <= IF i = 1 THEN SheetDefs[s].quantity
                       ELSE SumClosedProduction(logs, s, ph[i - 1].phaseId)

\* The snapshots remaining quantities are computed on: the sheet each client
\* holds and the sheet the store would hand out now
Snapshots ==
    {client[u].sheet : u \in Operators}
        \cup {getProductionSheetByQr(logs, s) : s \in SheetIds}

\* 1-based place of phase pid in the sequence-position order of the sheet
PositionRank(sheet, pid) ==
    LET p == sheet.phases[CHOOSE i \in DOMAIN sheet.phases : sheet.phases[i].phaseId = pid]
    IN  Cardinality({j \in DOMAIN sheet.phases : sheet.phases[j].position <= p.position})

\* remaining(phase) as section 4.1 words it
RemainingBySequence(sheet, pid) ==
    IF sheet = NoSheet THEN 0
    ELSE IF \A i \in DOMAIN sheet.phases : sheet.phases[i].phaseId # pid THEN 0
    ELSE LET k == PositionRank(sheet, pid)
             prev == CHOOSE i \in DOMAIN sheet.phases :
                         PositionRank(sheet, sheet.phases[i].phaseId) = k - 1
             upstream == IF k = 1 THEN sheet.quantity
                         ELSE SumClosedProduction(sheet.phaseLogs, sheet.id,
                                                  sheet.phases[prev].phaseId)
             done == SumClosedProduction(sheet.phaseLogs, sheet.id, pid)
         IN  IF upstream - done > 0 THEN upstream - done ELSE 0

C4_FirstPhaseScenario ==
    /\ \A sheet \in Snapshots :
           sheet # NoSheet /\ sheet.phaseLogs = <<>>
               => computeRemainingForPhase(sheet, sheet.phases[1].phaseId) = sheet.quantity
    /\ (/\ ev.handler = "finishProductionStage"
        /\ ev.tr.finishRes = "ok" /\ ~ev.tr.isPartial /\ ev.tr.reloaded
        /\ Len(client[ev.op].sheet.phaseLogs) = 1
        /\ client[ev.op].sheet.phaseLogs[1].phaseId = client[ev.op].sheet.phases[1].phaseId)
           => LET sheet == client[ev.op].sheet
              IN  /\ computeRemainingForPhase(sheet, sheet.phases[1].phaseId) = 0
                  /\ \A i \in DOMAIN sheet.phases :
                         i = 2 => computeRemainingForPhase(sheet, sheet.phases[i].phaseId)
                                      = sheet.quantity

\* The full finish of the only record of a two-phase sheet was reloaded
C4_Witness ==
    /\ ev.handler = "finishProductionStage"
    /\ ev.tr.finishRes = "ok" /\ ~ev.tr.isPartial /\ ev.tr.reloaded
    /\ Len(client[ev.op].sheet.phaseLogs) = 1
    /\ client[ev.op].sheet.phaseLogs[1].phaseId = client[ev.op].sheet.phases[1].phaseId
    /\ Len(client[ev.op].sheet.phases) = 2

\* The text is an integer literal: optional sign, then digits only
IsIntegerText(str) ==
    LET s == trim(str)
        body == IF s # <<>> /\ Head(s) \in {"-", "+"} THEN Tail(s) ELSE s
    IN  body # <<>> /\ \A i \in DOMAIN body : body[i] \in Digits

\* The entered text is an integer q with 0 < q <= remaining
IsValidPartialQuantity(str, remaining) ==
    /\ IsIntegerText(str)
    /\ LET s == trim(str)
           q == IF Head(s) = "-" THEN 0 - DecimalValue(Tail(s))
                ELSE IF Head(s) = "+" THEN DecimalValue(Tail(s))
                ELSE DecimalValue(s)
       IN  0 < q /\ q <= remaining

\* C5: a partial finish whose entered quantity is not an integer q with
\* 0 < q <= remaining(phase) sends no finishPhase, leaves the record open and
\* leaves activeLog, currentStage and the running timer as they were.
C5_InvalidPartialRejected ==
    [][ \A u \in Operators :
          (/\ ev'.op = u /\ ev'.handler = "finishProductionStage"
           /\ ev'.tr.isPartial /\ ev'.tr.input # PromptCancelled
           /\ client[u].activeLog # 0
           /\ ~IsValidPartialQuantity(ev'.tr.input,
                   computeRemainingForPhase(client[u].sheet,
                                            logs[client[u].activeLog].phaseId)))
          => /\ ~ev'.tr.finishSent
             /\ logs' = logs
             /\ client'[u].activeLog = client[u].activeLog
             /\ client'[u].currentStage = client[u].currentStage
             /\ client'[u].stageTimer = client[u].stageTimer ]_vars

\* The phase after pid in the snapshot, "none" after the last one
NextPhaseId(sheet, pid) ==
    IF PhaseIndex(sheet, pid) = 0 \/ PhaseIndex(sheet, pid) = Len(sheet.phases) THEN "none"
    ELSE sheet.phases[PhaseIndex(sheet, pid) + 1].phaseId

\* C6: after a partial finish of q on phase P was accepted by the store, the
\* operator's next remaining(P) is q less than before the finish and the
\* remaining of the phase after P is q more.
C6_PartialFinishExact ==
    [][ \A u \in Operators :
          (/\ ev'.op = u /\ ev'.handler = "finishProductionStage"
           /\ ev'.tr.isPartial /\ ev'.tr.finishRes = "ok"
           /\ client[u].activeLog # 0)
          => LET id == client[u].activeLog
                 P == logs[id].phaseId
                 q == logs'[id].quantityDone
                 N == NextPhaseId(client[u].sheet, P)
             IN  /\ computeRemainingForPhase(client'[u].sheet, P)
                        = computeRemainingForPhase(client[u].sheet, P) - q
                 /\ N # "none"
                        => computeRemainingForPhase(client'[u].sheet, N)
                               = computeRemainingForPhase(client[u].sheet, N) + q ]_vars

\* C7: a production record is closed only while remaining(phase) > 0 on the
\* closing operator's snapshot, and a full finish closes it with
\* quantityDone = that remaining.
C7_FinishOnlyWithRemaining ==
    [][ \A i \in DOMAIN logs :
          (/\ logs[i].stage = "production"
           /\ logs[i].endTime = "null" /\ logs'[i].endTime # "null")
          => LET remaining == computeRemainingForPhase(
                                  client[logs[i].operatorUsername].sheet, logs[i].phaseId)
             IN  /\ remaining > 0
                 /\ ~ev'.tr.isPartial => logs'[i].quantityDone = remaining
                 /\ ev'.tr.isPartial => /\ logs'[i].quantityDone > 0
                                        /\ logs'[i].quantityDone <= remaining ]_vars

\* A full finish closed a production record of a phase part of which had
\* been finished before
C7_Witness ==
    /\ ev.handler = "finishProductionStage"
    /\ ev.tr.finishRes = "ok" /\ ~ev.tr.isPartial
    /\ \E i, j \in DOMAIN logs :
          /\ i < j
          /\ logs[i].phaseId = logs[j].phaseId /\ logs[i].sheetId = logs[j].sheetId
          /\ logs[i].stage = "production" /\ logs[j].stage = "production"
          /\ logs[i].endTime # "null" /\ logs[j].endTime # "null"
          /\ logs[i].quantityDone > 0 /\ logs[j].quantityDone > 0

\* C8: startPhase is sent only when the record the client holds (activeLog)
\* is closed in the store; in particular after the operator chose "Finish
\* it" in the dialog.
C8_StartAfterClose ==
    (ev.handler \in StartHandlers /\ ev.tr.startSent) => ~ev.tr.heldAtStart

\* C9: a start attempted while the operator has an open work record (on any
\* sheet, phase or stage) shows the resolution dialog; on Cancel no
\* startPhase is sent and no stage runs.
C9_ForcedResolution ==
    [][ \A u \in Operators :
          (ev'.op = u /\ ev'.handler \in StartHandlers)
          => /\ OpenLogsOf(u) # {} => ev'.tr.dialog # "none"
             /\ ev'.tr.dialog = "cancel"
                    => /\ ~ev'.tr.startSent
                       /\ client'[u].currentStage = "none"
                       /\ ~client'[u].stageTimer ]_vars

\* C10: when startPhase fails (no answer, or refused), currentStage,
\* currentStagePhaseId and activeLog are what they were before the attempt
\* and no stage timer runs.
C10_FailedStartKeepsState ==
    [][ \A u \in Operators :
          (/\ ev'.op = u /\ ev'.handler \in StartHandlers
           /\ ev'.tr.startSent /\ ev'.tr.startRes # "ok")
          => /\ client'[u].currentStage = client[u].currentStage
             /\ client'[u].currentStagePhaseId = client[u].currentStagePhaseId
             /\ client'[u].activeLog = client[u].activeLog
             /\ ~client'[u].stageTimer ]_vars

\* A startPhase of the production stage was refused by the store
C10_Witness ==
    /\ ev.handler = "startProductionStage"
    /\ ev.tr.startSent /\ ev.tr.startRes = "conflict"
    /\ client[ev.op].currentStage = "none"

FinishHandlers == {"finishSimpleStage", "finishProductionStage"}

\* C11: when the finishPhase request of a find, setup or production finish
\* fails, activeLog, currentStage and currentStagePhaseId are what they were
\* before the attempt (so that the finish can be repeated for the same
\* record).
C11_FailedFinishKeepsState ==
    [][ \A u \in Operators :
          (/\ ev'.op = u /\ ev'.handler \in FinishHandlers
           /\ ev'.tr.finishSent /\ ev'.tr.finishRes = "neterr")
          => /\ client'[u].activeLog = client[u].activeLog
             /\ client'[u].currentStage = client[u].currentStage
             /\ client'[u].currentStagePhaseId = client[u].currentStagePhaseId ]_vars

\* C12: whenever the finishPhase request of a stage finish has succeeded, the
\* client ends with no stage running and activeLog cleared, whether
\* stopLivePhase succeeded or failed.
C12_FinishCompletesWithoutLive ==
    (ev.handler \in FinishHandlers /\ ev.tr.finishRes = "ok")
        => /\ client[ev.op].activeLog = 0
           /\ client[ev.op].currentStage = "none"
           /\ client[ev.op].currentStagePhaseId = "none"

\* C13: after a scan that loaded a sheet on which the store holds an open
\* work record of the scanning operator, activeLog is that record and
\* currentStage / currentStagePhaseId are its stage and phase.
C13_ScanResumes ==
    [][ \A u \in Operators : \A i \in OpenLogsOf(u) :
          (/\ ev'.op = u /\ ev'.handler = "handleScanSuccess"
           /\ client'[u].viewState = "details"
           /\ client'[u].sheet.id = logs[i].sheetId)
          => /\ client'[u].activeLog = i
             /\ client'[u].currentStage = logs[i].stage
             /\ client'[u].currentStagePhaseId = logs[i].phaseId ]_vars

\* C14: when a scan resumes an open record, the elapsed-seconds counter is
\* the time since the record's startTime, whatever the counter held before.
C14_ResumeElapsed ==
    [][ \A u \in Operators :
          (/\ ev'.op = u /\ ev'.handler = "handleScanSuccess"
           /\ client'[u].activeLog # 0)
          => client'[u].stageSeconds = now - logs[client'[u].activeLog].startTime ]_vars

\* A scan resumed a record that was opened two seconds earlier
C14_Witness ==
    /\ ev.handler = "handleScanSuccess"
    /\ client[ev.op].activeLog # 0
    /\ now - logs[client[ev.op].activeLog].startTime = 2
    /\ client[ev.op].stageSeconds = 2

\* C15: while the operator's open record belongs to another sheet than the
\* one the client shows, no start or finish on the shown sheet takes effect:
\* no record is opened or closed and the client enters no stage.
C15_OtherSheetBlocked ==
    [][ \A u \in Operators : \A i \in OpenLogsOf(u) :
          (/\ ev'.op = u /\ ev'.handler \in StartHandlers \cup FinishHandlers
           /\ client[u].sheet # NoSheet
           /\ logs[i].sheetId # client[u].sheet.id)
          => /\ logs' = logs
             /\ client'[u].currentStage = "none"
             /\ ~client'[u].stageTimer ]_vars

\* A start on the shown sheet was attempted while the operator's open record
\* was on another sheet, and the store refused it
C15_Witness ==
    /\ ev.handler \in StartHandlers
    /\ ev.tr.startSent /\ ev.tr.startRes = "conflict"
    /\ client[ev.op].sheet # NoSheet
    /\ \E i \in OpenLogsOf(ev.op) : logs[i].sheetId # client[ev.op].sheet.id

\* C16: a start of find, setup or production for a phase whose remaining
\* quantity is <= 0 is refused: every startPhase request is for a phase with
\* remaining > 0, the start buttons of a phase without remaining quantity are
\* not rendered, and the handlers called for such a phase send nothing and
\* leave the client and the store as they were.
C16_NoStartWithoutRemaining ==
    [][ \A u \in Operators :
          /\ (ev'.op = u /\ ev'.handler \in StartHandlers /\ ev'.tr.startSent)
             => computeRemainingForPhase(client[u].sheet, ev'.tr.phaseId) > 0
          /\ \A p \in PhaseIds :
               (/\ client[u].sheet # NoSheet
                /\ client[u].activeLog = 0
                /\ PhaseIndex(client[u].sheet, p) # 0
                /\ computeRemainingForPhase(client[u].sheet, p) <= 0)
               => /\ ~StartButtonsShown(client[u], PhaseIndex(client[u].sheet, p))
                  /\ \A stage \in {"find", "setup"} :
                       LET y == startSimpleStage(u, client[u], Begin(u), p, stage,
                                                 "none", NetOk)
                       IN  ~y.tr.startSent /\ y.cs = client[u] /\ y.logs = logs
                  /\ LET y == startProductionStage(u, client[u], Begin(u), p,
                                                   "none", NetOk)
                     IN  ~y.tr.startSent /\ y.cs = client[u] /\ y.logs = logs ]_vars

\* The details view shows, with no stage running, a phase whose quantity has
\* been produced in full
C16_Witness ==
    \E u \in Operators :
      /\ client[u].viewState = "details" /\ client[u].sheet # NoSheet
      /\ client[u].currentStage = "none" /\ client[u].activeLog = 0
      /\ \E p \in PhaseIds :
           /\ PhaseIndex(client[u].sheet, p) # 0
           /\ doneByPhase(client[u].sheet, p) > 0
           /\ computeRemainingForPhase(client[u].sheet, p) <= 0

\* The phase requires a find stage (phase ids "2" and "30") or a setup stage
\* (setupTime > 0)
RequiresFindOrSetup(sheet, phaseId) ==
    \/ phaseId \in {"2", "30"}
    \/ PhaseDef(sheet, phaseId).setupTime > 0

\* C17: a production record is opened for a phase that requires find or
\* setup only after a find or setup record of that sheet and phase exists.
C17_ProductionAfterFindSetup ==
    \A i \in DOMAIN logs :
      (/\ logs[i].stage = "production"
       /\ RequiresFindOrSetup(SheetDefs[logs[i].sheetId], logs[i].phaseId))
      => \E j \in 1..(i - 1) :
           /\ logs[j].sheetId = logs[i].sheetId
           /\ logs[j].phaseId = logs[i].phaseId
           /\ logs[j].stage \in {"find", "setup"}

\* C18: every record is opened with totalQuantity = remaining(phase) as the
\* starting view computes it when it is a production record, and with 0 when
\* it is a find or setup record.
C18_TotalQuantityIsRemaining ==
    [][ Len(logs') = Len(logs) + 1
        => LET rec  == logs'[Len(logs')]
               u    == rec.operatorUsername
               view == IF ev'.handler \in {"startSimpleStage", "startProductionStage"}
                       THEN client[u].sheet ELSE machineView[u].sheet
           IN  IF rec.stage = "production"
               THEN rec.totalQuantity = computeRemainingForPhase(view, rec.phaseId)
               ELSE rec.totalQuantity = 0 ]_vars

\* C19: a dead-time start made while the store holds an open work-log or
\* dead-time record of the operator sends no startDeadTime request and changes
\* nothing.
C19_DeadStartPrechecked ==
    [][ \A u \in Operators :
          (/\ ev'.op = u /\ ev'.handler = "handleStart"
           /\ (HasOpenLog(logs, u) \/ HasOpenDead(deadLogs, u)))
          => /\ ~ev'.tr.startSent
             /\ deadLogs' = deadLogs
             /\ deadView' = deadView ]_vars

\* Requirement tier of a dead-time code
Tier(code) ==
    LET meta == CHOOSE c \in DEAD_CODES : c.code = code
    IN  IF meta.requiresProductManual THEN "manual-product-required"
        ELSE IF meta.requiresProductOrSheet THEN "product-or-sheet-required"
        ELSE "none"

\* A product id has been typed: some character of the field is not a blank
ProductIdEntered(str) == \E i \in DOMAIN str : str[i] # " "

PassesValidation(f) ==
    \/ Tier(f.selectedCode) = "none"
    \/ Tier(f.selectedCode) = "manual-product-required"
         /\ ProductIdEntered(f.manualProductId)
    \/ Tier(f.selectedCode) = "product-or-sheet-required"
         /\ (ProductIdEntered(f.manualProductId) \/ f.scannedSheetId # "none")

\* C20: with the start form shown and a code chosen, handleStart sends the
\* startDeadTime request exactly when the form passes the validation of the
\* code's requirement tier; a form that does not pass changes nothing, and
\* canStart, which enables the button, decides the same way.
C20_DeadStartValidation ==
    \A u \in Operators :
      (deadView[u].activeDead = 0 /\ ~deadView[u].activePhase)
      => \A f \in DeadForms :
           f.selectedCode # 0
           => LET y == handleStart(u, BeginDead(u), logs, f, NetOk)
              IN  /\ y.tr.startSent <=> PassesValidation(f)
                  /\ canStart(f) <=> PassesValidation(f)
                  /\ ~PassesValidation(f) => y = BeginDead(u)

\* A dead time of the product-or-sheet tier has just been started
C20_Witness ==
    /\ ev.handler = "handleStart" /\ ev.tr.startSent /\ ev.tr.startRes = "ok"
    /\ deadView[ev.op].activeDead # 0
    /\ Tier(deadLogs[deadView[ev.op].activeDead].code) = "product-or-sheet-required"

\* The entries of bucket b of a live-status result that name operator u
EntriesOf(status, b, u) == {e \in status[b] : e.username = u}

ScenarioSheet ==
    [id |-> "S1", quantity |-> 100,
     phases |-> << [phaseId |-> "A", position |-> 10, setupTime |-> 0,
                    productionTimePerPiece |-> 1],
                   [phaseId |-> "B", position |-> 20, setupTime |-> 0,
                    productionTimePerPiece |-> 2] >>,
     phaseLogs |-> << [id |-> 1, operatorUsername |-> "op2", sheetId |-> "S1",
                       phaseId |-> "A", stage |-> "production", startTime |-> 1,
                       endTime |-> "set", quantityDone |-> 40, timeSeconds |-> 40,
                       totalQuantity |-> 100] >>]

\* op1 starts production of "B" on the scenario sheet at time 1
ScenarioStart ==
    LET cs == [InitClient EXCEPT !.viewState = "details", !.sheet = ScenarioSheet]
    IN  startProductionStage("op1", cs,
            [cs |-> cs, logs |-> ScenarioSheet.phaseLogs,
             live |-> [u \in Operators |-> NoLive], dead |-> <<>>,
             now |-> 1, tr |-> NoTrace, threw |-> FALSE],
            "B", "none", NetOk)

\* The active entry of op1 in the scenario after `running` seconds
ScenarioEntry(running) ==
    CHOOSE e \in getLiveStatus(ScenarioStart.live, <<>>, 1 + running).active :
        e.username = "op1"

SecondFinish(u) ==
    /\ ev'.op = u /\ ev'.handler = "finishProductionStage"
    /\ ev'.tr.finishSent /\ ev'.tr.finishRes \in {"ok", "lost"}
    /\ client[u].activeLog # 0
    /\ logs[client[u].activeLog].endTime # "null"

FinishRequestFor(u, i) ==
    /\ ev'.op = u /\ ev'.tr.finishSent
    /\ client[u].activeLog = i

C25_DecisionOnFreshSnapshot ==
    [][ \A u \in Operators :
          (/\ ev'.op = u
           /\ ev'.handler \in StartHandlers \cup {"finishProductionStage"}
           /\ IF ev'.handler = "finishProductionStage"
              THEN ev'.tr.finishSent ELSE ev'.tr.startSent
           /\ client[u].sheet # NoSheet)
          => computeRemainingForPhase(client[u].sheet, ev'.tr.phaseId)
               = computeRemainingForPhase(
                     getProductionSheetByQr(logs, client[u].sheet.id),
                     ev'.tr.phaseId) ]_vars



\* Index of the last production record of sheet s and phase pid among the
\* first n records, 0 when there is none
RECURSIVE LastProductionBefore(_, _, _, _)
LastProductionBefore(L, n, s, pid) ==
    IF n = 0 THEN 0
    ELSE IF L[n].sheetId = s /\ L[n].phaseId = pid /\ L[n].stage = "production"
    THEN n
    ELSE LastProductionBefore(L, n - 1, s, pid)

\* Elapsed seconds of the closed records of the given stage of sheet s and
\* phase pid among records from + 1 .. to
RECURSIVE StageSecondsBetween(_, _, _, _, _, _)
StageSecondsBetween(L, from, to, s, pid, stage) ==
    IF to <= from THEN 0
    ELSE (IF /\ L[to].sheetId = s /\ L[to].phaseId = pid /\ L[to].stage = stage
             /\ L[to].endTime # "null"
          THEN L[to].timeSeconds ELSE 0)
         + StageSecondsBetween(L, from, to - 1, s, pid, stage)

\* C26: the production record created by a production start carries, as
\* findMaterialTime and setupTime, the sums of the elapsed seconds of the find
\* and setup records closed for that phase since the previous production
\* start of that phase; and the start leaves the pending times of that phase
\* empty.
C26_PendingTimesAttached ==
    [][ \A u \in Operators :
          (/\ ev'.op = u /\ ev'.handler = "startProductionStage"
           /\ ev'.tr.startRes = "ok")
          => LET n == Len(logs')
                 r == logs'[n]
                 prev == LastProductionBefore(logs', n - 1, r.sheetId, r.phaseId)
             IN  /\ r.findMaterialTime
                      = StageSecondsBetween(logs', prev, n - 1, r.sheetId, r.phaseId, "find")
                 /\ r.setupTime
                      = StageSecondsBetween(logs', prev, n - 1, r.sheetId, r.phaseId, "setup")
                 /\ client'[u].pendingStageTimes[r.phaseId] = [find |-> 0, setup |-> 0]
      ]_vars



\* C27: whenever a finish request closes a record, the elapsed seconds it
\* stores are the whole seconds between the record's startTime and the
\* moment of the close.
C27_ElapsedIsWallClock ==
    [][ \A i \in DOMAIN logs :
          (logs[i].endTime = "null" /\ logs'[i].endTime # "null")
          => logs'[i].timeSeconds = now - logs[i].startTime ]_vars



\* C28: whenever the startPhase request of a find, setup or production start
\* has succeeded, the client ends in the started stage: currentStage is that
\* stage, activeLog holds the new record and the timer runs, whatever the
\* outcome of startLivePhase.
C28_StartedDespiteLiveFailure ==
    [][ \A u \in Operators :
          (/\ ev'.op = u /\ ev'.handler \in StartHandlers
           /\ ev'.tr.startRes = "ok")
          => /\ client'[u].activeLog = Len(logs')
             /\ client'[u].currentStage = logs'[Len(logs')].stage
             /\ client'[u].stageTimer ]_vars



\* The sheet snapshot the operator view of u holds
HeldSheet(u) ==
    IF machineView[u].sheet # NoSheet THEN machineView[u].sheet ELSE client[u].sheet

\* C29: whenever a start writes the live row of u, its plannedTime is
\* setupTime + productionTimePerPiece * remaining(phase) for a find ("search")
\* or setup row and productionTimePerPiece * remaining(phase) for a
\* production row, remaining being computed on the sheet the view holds.
C29_PlannedDuration ==
    [][ \A u \in Operators :
          (live'[u] # live[u] /\ live'[u] # NoLive /\ HeldSheet(u) # NoSheet)
          => LET row == live'[u]
                 def == PhaseDef(HeldSheet(u), row.phaseId)
                 rem == computeRemainingForPhase(HeldSheet(u), row.phaseId)
             IN  row.plannedTime
                   = (IF row.status = "production" THEN 0 ELSE def.setupTime)
                     + def.productionTimePerPiece * rem ]_vars



\* C30: a live-status poll that fails leaves the displayed data and everything
\* the view renders as they were, and leaves the interval running; and every
\* firing of the interval issues a new poll.
C30_FailedPollIsSilent ==
    [][ /\ (ev'.handler = "load" /\ ~livePhases'.settledOk)
           => /\ livePhases'.data = livePhases.data
              /\ Rendered(livePhases') = Rendered(livePhases)
              /\ livePhases'.interval = livePhases.interval
        /\ ev'.handler = "interval"
           => /\ livePhases'.issued = livePhases.issued + 1
              /\ \E p \in livePhases'.inflight : p.seq = livePhases'.issued
      ]_vars

\* A poll has just failed while the view was showing the answer of another
\* poll, and the interval is still set
C30_Witness ==
    /\ ev.handler = "load" /\ ~livePhases.settledOk
    /\ livePhases.interval
    /\ livePhases.shown > 0 /\ livePhases.data.active # {}


\* C31: when the startDeadTime request fails, the dead-time view is left as
\* it was, without an active dead time and with no record created; when the
\* finishDeadTime request fails, the view is left as it was, with its active
\* dead time, and the record stays open. The view being unchanged, the same
\* button runs the same handler again.
C31_DeadTimeFailureKeepsState ==
    [][ \A u \in Operators :
          /\ (/\ ev'.op = u /\ ev'.handler = "handleStart"
              /\ ev'.tr.startSent /\ ev'.tr.startRes # "ok")
             => /\ deadView'[u] = deadView[u]
                /\ deadView'[u].activeDead = 0
                /\ deadLogs' = deadLogs
          /\ (/\ ev'.op = u /\ ev'.handler = "handleFinish"
              /\ ev'.tr.finishSent /\ ev'.tr.finishRes # "ok")
             => /\ deadView'[u] = deadView[u]
                /\ deadView'[u].activeDead # 0
                /\ deadLogs'[deadView'[u].activeDead].endTime = "null"
                /\ deadLogs' = deadLogs ]_vars

\* A finishDeadTime request has just failed for a dead time that a
\* successful start had opened
C31_Witness ==
    /\ ev.handler = "handleFinish" /\ ev.tr.finishSent /\ ev.tr.finishRes = "neterr"
    /\ deadView[ev.op].activeDead # 0
    /\ OpenDeadOf(ev.op) # {}



\* u holds an open production record i of the first phase of its sheet that
\* no action of u can close: the phase has nothing remaining, on the sheet
\* the store hands out and on the sheet the view of u holds, or the view
\* holds no sheet, or it holds another sheet and not the record
StuckOn(u, i) ==
    /\ logs[i].operatorUsername = u /\ logs[i].endTime = "null"
    /\ logs[i].stage = "production"
    /\ LET fresh == getProductionSheetByQr(logs, logs[i].sheetId)
       IN  /\ PhaseIndex(fresh, logs[i].phaseId) = 1
           /\ computeRemainingForPhase(fresh, logs[i].phaseId) <= 0
    /\ IF client[u].sheet = NoSheet THEN TRUE
       ELSE IF client[u].sheet.id = logs[i].sheetId
       THEN computeRemainingForPhase(client[u].sheet, logs[i].phaseId) <= 0
       ELSE client[u].activeLog # i

\* Once u is stuck on record i, u stays stuck on it whatever step is taken:
\* no sequence of actions leads out of this set of states
StuckIsAbsorbing ==
    [][ \A u \in Operators : \A i \in DOMAIN logs :
          StuckOn(u, i) => StuckOn(u, i)' ]_vars

\* C32: an operator with an open production record is never in a state from
\* which no sequence of actions closes the record.
C32_OpenProductionClosable ==
    \A u \in Operators : \A i \in DOMAIN logs : ~StuckOn(u, i)



\* The stage and phase of the record activeLog holds ("none" without one)
ActiveLogStage(u) ==
    IF client[u].activeLog = 0 THEN "none" ELSE logs[client[u].activeLog].stage

ActiveLogPhase(u) ==
    IF client[u].activeLog = 0 THEN "none" ELSE logs[client[u].activeLog].phaseId

\* C33: between handlers (no request in flight), activeLog is non-null
\* exactly when currentStage is non-null, and then the stage and phase of the
\* record activeLog holds are currentStage and currentStagePhaseId.
C33_ActiveLogMatchesStage ==
    \A u \in Operators :
        /\ (client[u].activeLog # 0) <=> (client[u].currentStage # "none")
        /\ client[u].currentStage = ActiveLogStage(u)
        /\ client[u].currentStagePhaseId = ActiveLogPhase(u)

\* C34: between handlers (no request in flight), the one-second stage timer
\* runs exactly when currentStage is non-null. (The timer is one ref that is
\* cleared before it is set, so at most one interval exists.)
C34_TimerMatchesStage ==
    \A u \in Operators :
        client[u].stageTimer <=> (client[u].currentStage # "none")



\* C35: resetView ("scan another") sends no request: the store (work logs,
\* dead-time records, live rows) is what it was, so every record that was
\* open is still open; and the view ends with no sheet, activeLog,
\* currentStage and timer cleared and the pending stage times empty.
C35_ResetViewIsLocal ==
    [][ \A u \in Operators :
          (ev'.op = u /\ ev'.handler = "resetView")
          => /\ logs' = logs /\ deadLogs' = deadLogs /\ live' = live
             /\ ~ev'.tr.startSent /\ ~ev'.tr.finishSent
             /\ OpenLogsOf(u)' = OpenLogsOf(u)
             /\ client'[u].activeLog = 0
             /\ client'[u].currentStage = "none"
             /\ client'[u].currentStagePhaseId = "none"
             /\ ~client'[u].stageTimer
             /\ client'[u].stageSeconds = 0
             /\ client'[u].pendingStageTimes = NoPending ]_vars

\* resetView has just run while the operator held an open record: the record
\* is still open and the view no longer holds it
C35_Witness ==
    /\ ev.handler = "resetView"
    /\ OpenLogsOf(ev.op) # {}
    /\ client[ev.op].activeLog = 0 /\ client[ev.op].viewState = "idle"



\* C36: a find or setup record is closed with quantityDone 0, and a finish of
\* a find or setup stage leaves doneByPhase and the remaining quantity of
\* every phase of every sheet as they were.
C36_SimpleFinishKeepsQuantities ==
    [][ /\ \A i \in DOMAIN logs :
             (/\ logs[i].stage \in {"find", "setup"}
              /\ logs[i].endTime = "null" /\ logs'[i].endTime # "null")
             => logs'[i].quantityDone = 0
        /\ ev'.handler = "finishSimpleStage"
           => \A s \in SheetIds :
                LET before == getProductionSheetByQr(logs, s)
                    after  == getProductionSheetByQr(logs', s)
                IN  \A k \in DOMAIN before.phases :
                      LET pid == before.phases[k].phaseId
                      IN  /\ doneByPhase(after, pid) = doneByPhase(before, pid)
                          /\ computeRemainingForPhase(after, pid)
                               = computeRemainingForPhase(before, pid) ]_vars

\* A find or setup stage has just been finished and its record is closed
C36_Witness ==
    /\ ev.handler = "finishSimpleStage" /\ ev.tr.finishSent /\ ev.tr.finishRes = "ok"
    /\ \E i \in DOMAIN logs : /\ logs[i].stage \in {"find", "setup"}
                              /\ logs[i].endTime # "null"
                              /\ logs[i].operatorUsername = ev.op



\* C37: when the answer of a poll arrives after the answer of a later poll
\* has been displayed, the displayed data stay those of the later poll.
C37_NoOlderPollDisplayed ==
    [][ (/\ ev'.handler = "load"
         /\ livePhases'.settled < livePhases.shown)
        => livePhases'.data = livePhases.data ]_vars


============================================================================
